---------------------------- MODULE Spec2Model ----------------------------
(***************************************************************************)
(* Heat diffusion (Jacobi, 4-neighbour average) on a rectangular grid with *)
(* fixed borders, solved by four engines:                                  *)
(*   seq  - sequential.py / sequencial.py  (reference)                     *)
(*   thr  - paralelo.py    (threads, two barriers)                         *)
(*   shm  - parallel.py    (process pool, two shared segments)             *)
(*   dist - distributed.py (master / workers over sockets)                 *)
(*                                                                         *)
(* Temperatures are float64 in the code.  Here a temperature t is the      *)
(* integer t * Scale with Scale = 4^MaxIter: every value the engines       *)
(* produce within MaxIter Jacobi steps from integer temperatures is a      *)
(* multiple of 4^-MaxIter below 2^53, so float64 computes it exactly and   *)
(* x / 4.0 (or 0.25 * x) is the exact integer division by 4.               *)
(***************************************************************************)
EXTENDS Integers, Sequences, FiniteSets, TLC

\* ------------------------------------------------------------- bounds
MaxWidth == 4
MaxHeight == 5
MaxReq == 4
MaxIter == 3
MaxPartHeight == 9
MaxPartReq == 11
MaxDistWidth == 3
MaxDistWorkers == 3
MaxCap == 2
MaxBuf == 2

\* --------------------------------------------------- program constants
\* convergence_threshold=1e-6: below the smallest positive difference
\* 1/Scale the model can hold, so "diff < 1e-6" is "scaled diff < 1".
DefaultThreshold == 1
\* min_size_for_parallel=800
DefaultMinSizeForParallel == 800
\* initial_temp=0.0, boundary_temp=100.0
DefaultInitialTemp == 0
DefaultBoundaryTemp == 100
\* iteration % 10 == 0
CheckInterval == 10

Scale == 4 ^ MaxIter

Max(a, b) == IF a >= b THEN a ELSE b
Min(a, b) == IF a <= b THEN a ELSE b
Abs(x) == IF x < 0 THEN -x ELSE x

RECURSIVE SetMax(_)
SetMax(S) ==
    IF S = {} THEN 0
    ELSE LET x == CHOOSE y \in S : TRUE
         IN Max(x, SetMax(S \ {x}))

\* ---------------------------------------------------------------- grid
Rows(h) == 0 .. (h - 1)
Cols(w) == 0 .. (w - 1)
InteriorRows(h) == 1 .. (h - 2)
InteriorCols(w) == 1 .. (w - 2)

IsBorder(r, c, w, h) == r = 0 \/ r = h - 1 \/ c = 0 \/ c = w - 1

\* np.full((height, width), initial_temp) followed by the four border
\* assignments; temperatures scaled by Scale.
NewGrid(w, h, initial_temp, boundary_temp) ==
    [r \in Rows(h) |-> [c \in Cols(w) |->
        IF IsBorder(r, c, w, h) THEN boundary_temp * Scale
                                ELSE initial_temp * Scale]]

\* One cell of the stencil: (north + south + west + east) / 4.0
Stencil(g, r, c) ==
    (g[r - 1][c] + g[r + 1][c] + g[r][c - 1] + g[r][c + 1]) \div 4

\* Faulty variant of the band update: the row slice is left out, so the
\* whole interior is written whatever the band.
JacobiBandWholeInterior(read, new, w, h, start, end) ==
    [r \in Rows(h) |-> [c \in Cols(w) |->
        IF r \in InteriorRows(h) /\ c \in InteriorCols(w)
        THEN Stencil(read, r, c)
        ELSE new[r][c]]]

\* new[start:end, 1:-1] = stencil(read); every other cell of `new` is kept.
JacobiBand(read, new, w, h, start, end) ==
    [r \in Rows(h) |-> [c \in Cols(w) |->
        IF r >= start /\ r < end /\ c \in InteriorCols(w)
        THEN Stencil(read, r, c)
        ELSE new[r][c]]]

\* Faulty variant of the convergence measure: np.max(np.abs(a)), the
\* subtraction left out.
MaxAbsValue(a, b, w, h) ==
    SetMax({Abs(a[r][c]) : r \in Rows(h), c \in Cols(w)})

\* np.max(np.abs(a - b)) over the whole grid.
MaxAbsDiff(a, b, w, h) ==
    SetMax({Abs(a[r][c] - b[r][c]) : r \in Rows(h), c \in Cols(w)})

\* ------------------------------------------------------- partitioning
\* paralelo.py: self.num_threads = max(1, min(num_threads, max(1, altura-2)))
ThreadCount(altura, num_threads) ==
    Max(1, Min(num_threads, Max(1, altura - 2)))

RECURSIVE FaixasLoop(_, _, _, _, _, _, _)
FaixasLoop(i, inicio, faixas, num_threads, linhas_por_thread, resto, altura) ==
    IF i >= num_threads THEN faixas
    ELSE LET linhas == linhas_por_thread + (IF i < resto THEN 1 ELSE 0)
             fim == Min(altura - 1, inicio + linhas)
         IN FaixasLoop(i + 1, fim, Append(faixas, <<inicio, fim>>),
                       num_threads, linhas_por_thread, resto, altura)

\* Faulty variant of _calcular_faixas_threads: the remainder rows are not
\* handed out.
FaixasNoRemainder(altura, num_threads) ==
    LET linhas_uteis == Max(1, altura - 2)
    IN FaixasLoop(0, 1, << >>, num_threads,
                  linhas_uteis \div num_threads, 0, altura)

\* DifusaoCalorParalela._calcular_faixas_threads
CalcularFaixasThreads(altura, num_threads) ==
    LET linhas_uteis == Max(1, altura - 2)
    IN FaixasLoop(0, 1, << >>, num_threads,
                  linhas_uteis \div num_threads,
                  linhas_uteis % num_threads, altura)

\* Faulty variant of __init__: the small-problem test is left out.
ProcessCountNoFallback(w, h, num_processes, min_size_for_parallel) ==
    num_processes

\* parallel.py: num_processes forced to 1 for small problems
ProcessCount(w, h, num_processes, min_size_for_parallel) ==
    IF Min(w, h) < min_size_for_parallel THEN 1 ELSE num_processes

RECURSIVE RangesLoop(_, _, _, _, _, _, _)
RangesLoop(i, start, ranges, num_processes, rows_per_process, remainder, h) ==
    IF i >= num_processes THEN ranges
    ELSE LET rows == rows_per_process + (IF i < remainder THEN 1 ELSE 0)
             end0 == start + rows
             end == IF i = num_processes - 1 THEN Min(end0, h - 1) ELSE end0
         IN RangesLoop(i + 1, end, Append(ranges, <<start, end>>),
                       num_processes, rows_per_process, remainder, h)

\* HeatDiffusionParallel._calculate_process_ranges
CalculateProcessRanges(h, num_processes) ==
    RangesLoop(0, 1, << >>, num_processes,
               (h - 2) \div num_processes, (h - 2) % num_processes, h)

RECURSIVE WorkerRangesLoop(_, _, _, _, _, _)
WorkerRangesLoop(i, start_row, ranges, num_workers, rows_per_worker, remainder) ==
    IF i >= num_workers THEN ranges
    ELSE LET rows == rows_per_worker + (IF i < remainder THEN 1 ELSE 0)
             end_row == start_row + rows
         IN WorkerRangesLoop(i + 1, end_row, Append(ranges, <<start_row, end_row>>),
                             num_workers, rows_per_worker, remainder)

\* Faulty variant of the server's band computation: the remainder rows all
\* go to the last worker instead of one each to the first workers.
ServerWorkerRangesRemainderLast(h, num_workers) ==
    LET rs == WorkerRangesLoop(0, 1, << >>, num_workers,
                               (h - 2) \div num_workers, 0)
    IN [i \in 1 .. num_workers |->
            IF i = num_workers THEN <<rs[i][1], h - 1>> ELSE rs[i]]

\* run_distributed_server: the bands handed to add_worker, in accept order
ServerWorkerRanges(h, num_workers) ==
    WorkerRangesLoop(0, 1, << >>, num_workers,
                     (h - 2) \div num_workers, (h - 2) % num_workers)

BandRows(band) == {r \in band[1] .. (band[2] - 1) : TRUE}


\* ---------------------------------------------------------------- state
VARIABLES
    engine,           \* "part" | "seq" | "thr" | "shm" | "dist"
    cfg,              \* the constructor's and simulate's arguments
    grid,             \* self.grid / self.grade       (current buffer)
    new_grid,         \* self.new_grid / self.nova_grade (next buffer)
    bands,            \* faixas_threads / process_ranges / worker_ranges
    pc,               \* position of the caller of simulate (coordinator, master)
    iteration,        \* the for-loop variable of simulate
    ret,              \* how simulate ended: running, returned n, raised
    updates,          \* number of completed update rounds (history)
    \* threaded engine (paralelo.py)
    wpc,              \* position of each worker thread
    barreira_inicio,  \* parties waiting on the start barrier
    barreira_fim,     \* parties waiting on the done barrier
    evento_parada,    \* the stop flag
    difs_max_locais,  \* local max-difference slot of each worker
    wround,           \* Jacobi steps each worker has performed (history)
    iteracoes_reais,  \* local of simular
    interrupted,      \* an error was raised in the coordinator (history)
    dead,             \* worker threads that died with an exception
    \* shared-segment engine (parallel.py)
    seg_state,        \* each segment: "none", "open", "closed" (unmapped), "unlinked"
    seg_data,         \* the grid held by each segment
    shm_handles,      \* which of self.shm_a, self.shm_b are not None
    read_grid_name,   \* self.read_grid_name
    write_grid_name,  \* self.write_grid_name
    read_array,       \* the segment self.read_array refers to
    write_array,      \* the segment self.write_array refers to
    pool,             \* self.pool: "none", "open", "closed", "joined"
    jobs,             \* the band jobs of the pool.map call in progress
    old_grid,         \* local of simulate (also of the distributed simulate)
    pending,          \* the return value or exception the finally clause holds
    \* distributed engine (distributed.py)
    workers,          \* self.workers: the connected workers, in accept order
    wstate,           \* state of each worker process
    wslice,           \* the slice a worker holds (received, then computed)
    to_worker,        \* per connection: messages in flight, master -> worker
    to_master,        \* per connection: messages in flight, worker -> master
    idx,              \* position in the send loop / receive loop of update
    sockets,          \* worker sockets the master holds open
    server_socket,    \* the listening socket: "open" or "closed"
    wcap,             \* run_distributed_worker's iterations argument, per
                      \* worker: << >> for None, <<c>> for the cap c
    wcount,           \* run_distributed_worker's local `iteration`, per worker
    wret,             \* how run_distributed_worker ended, per worker
    \* the connections as byte streams (sendall / recv)
    data,             \* local `data` of a receive in progress, per process
    unsent            \* what a sendall in progress has still to hand over

commonVars == <<engine, cfg, grid, new_grid, bands, pc, iteration, ret, updates>>
thrVars == <<wpc, barreira_inicio, barreira_fim, evento_parada,
             difs_max_locais, wround, iteracoes_reais, interrupted, dead>>
shmVars == <<seg_state, seg_data, shm_handles, read_grid_name, write_grid_name,
             read_array, write_array, pool, jobs, pending>>
wrunVars == <<wcap, wcount, wret>>
streamVars == <<data, unsent>>
distVars == <<workers, wstate, wslice, to_worker, to_master, idx, sockets,
              server_socket, wrunVars, streamVars>>
vars == <<commonVars, old_grid, thrVars, shmVars, distVars>>

Running == [kind |-> "running", n |-> 0]
Returned(n) == [kind |-> "returned", n |-> n]
Raised == [kind |-> "raised", n |-> 0]

InitialTemps == {DefaultInitialTemp, DefaultBoundaryTemp}
Thresholds == {0, DefaultThreshold, 30 * Scale}

Configs ==
    [width : 3 .. MaxWidth, height : 3 .. MaxHeight,
     iterations : 0 .. MaxIter, convergence_threshold : Thresholds,
     num : 1 .. MaxReq, initial_temp : InitialTemps,
     boundary_temp : {DefaultBoundaryTemp},
     min_size_for_parallel : {DefaultMinSizeForParallel}]

Segments == {"A", "B"}
NoPending == [kind |-> "none", n |-> 0]

ShmIdle ==
    /\ seg_state = [x \in Segments |-> "none"]
    /\ seg_data = [x \in Segments |-> << >>]
    /\ shm_handles = {}
    /\ read_grid_name = "none"
    /\ write_grid_name = "none"
    /\ read_array = "none"
    /\ write_array = "none"
    /\ pool = "none"
    /\ jobs = << >>
    /\ old_grid = << >>
    /\ pending = NoPending

DistIdle ==
    /\ workers = << >>
    /\ wstate = << >>
    /\ wslice = << >>
    /\ to_worker = << >>
    /\ to_master = << >>
    /\ idx = 0
    /\ sockets = {}
    /\ server_socket = "closed"
    /\ wcap = << >>
    /\ wcount = << >>
    /\ wret = << >>
    /\ data = << >>
    /\ unsent = << >>

ThrIdle ==
    /\ wpc = << >>
    /\ barreira_inicio = {}
    /\ barreira_fim = {}
    /\ evento_parada = FALSE
    /\ difs_max_locais = << >>
    /\ wround = << >>
    /\ iteracoes_reais = 0
    /\ interrupted = FALSE
    /\ dead = {}

\* ------------------------------------------------- partition (pure)
PartConfigs ==
    [width : {MaxPartHeight}, height : 3 .. MaxPartHeight,
     iterations : {0}, convergence_threshold : {DefaultThreshold},
     num : 1 .. MaxPartReq, initial_temp : {DefaultInitialTemp},
     boundary_temp : {DefaultBoundaryTemp},
     min_size_for_parallel : {3, DefaultMinSizeForParallel}]

PartInit ==
    /\ engine = "part"
    /\ cfg \in PartConfigs
    /\ grid = << >> /\ new_grid = << >>
    /\ bands = << >>
    /\ pc \in {"part_thr", "part_shm", "part_dist"}
    /\ iteration = 0 /\ ret = Running /\ updates = 0
    /\ ThrIdle
    /\ ShmIdle
    /\ DistIdle

PartitionThreads ==
    /\ pc = "part_thr"
    /\ bands' = CalcularFaixasThreads(cfg.height, ThreadCount(cfg.height, cfg.num))
    /\ pc' = "part_done_thr"
    /\ UNCHANGED <<engine, cfg, grid, new_grid, iteration, ret, updates, thrVars, shmVars, old_grid, distVars>>

PartitionProcesses ==
    /\ pc = "part_shm"
    /\ bands' = CalculateProcessRanges(cfg.height,
                    ProcessCount(cfg.width, cfg.height, cfg.num, cfg.min_size_for_parallel))
    /\ pc' = "part_done_shm"
    /\ UNCHANGED <<engine, cfg, grid, new_grid, iteration, ret, updates, thrVars, shmVars, old_grid, distVars>>

PartitionWorkers ==
    /\ pc = "part_dist"
    /\ bands' = ServerWorkerRanges(cfg.height, cfg.num)
    /\ pc' = "part_done_dist"
    /\ UNCHANGED <<engine, cfg, grid, new_grid, iteration, ret, updates, thrVars, shmVars, old_grid, distVars>>

PartNext == PartitionThreads \/ PartitionProcesses \/ PartitionWorkers

SpecPart == PartInit /\ [][PartNext]_vars

PartDone == pc \in {"part_done_thr", "part_done_shm", "part_done_dist"}

\* Bands that are ordered, contiguous from row 1, pairwise disjoint, and
\* whose union is exactly the interior rows [1, h-1).
BandsPartitionInterior(bs, h) ==
    /\ Len(bs) >= 1
    /\ bs[1][1] = 1
    /\ \A i \in 1 .. Len(bs) : bs[i][1] <= bs[i][2]
    /\ \A i \in 1 .. (Len(bs) - 1) : bs[i + 1][1] = bs[i][2]
    /\ \A i, j \in 1 .. Len(bs) : i # j => BandRows(bs[i]) \cap BandRows(bs[j]) = {}
    /\ UNION {BandRows(bs[i]) : i \in 1 .. Len(bs)} = InteriorRows(h)

\* C1: for every height >= 3 and every requested worker count >= 1, also
\* counts above height-2, the bands computed by each engine (threaded,
\* shared-segment, distributed server) are ordered, contiguous from row 1,
\* pairwise non-overlapping, and their union is exactly the interior rows.
C1_BandsPartition == PartDone => BandsPartitionInterior(bands, cfg.height)

C1_Witness ==
    /\ pc = "part_done_dist"
    /\ cfg.num > cfg.height - 2
    /\ cfg.height > 3
    /\ Len(bands) = cfg.num

\* ------------------------------------------------ sequential engine
\* Faulty variant of update: the next buffer is a fresh np.zeros_like
\* array instead of the persistent one that carries the borders.
SeqUpdateFreshBuffer(g, ng, w, h) ==
    [grid |-> JacobiBand(g, [r \in Rows(h) |-> [c \in Cols(w) |-> 0]],
                         w, h, 1, h - 1),
     new_grid |-> g]

\* Faulty variant of update: the interior is computed into the next
\* buffer but the two buffers do not change roles.
SeqUpdateNoSwap(g, ng, w, h) ==
    [grid |-> g, new_grid |-> JacobiBand(g, ng, w, h, 1, h - 1)]

\* HeatDiffusionSequential.update / DifusaoCalorSequencial.atualizar:
\* the whole interior from `g` into `ng`, then the two buffers change roles.
SeqUpdate(g, ng, w, h) ==
    [grid |-> JacobiBand(g, ng, w, h, 1, h - 1), new_grid |-> g]

SeqInit ==
    /\ engine = "seq"
    /\ cfg \in {c \in Configs : c.num = 1}
    /\ grid = NewGrid(cfg.width, cfg.height, cfg.initial_temp, cfg.boundary_temp)
    /\ new_grid = grid
    /\ bands = << >>
    /\ pc = "seq_loop"
    /\ iteration = 0 /\ ret = Running /\ updates = 0
    /\ ThrIdle
    /\ ShmIdle
    /\ DistIdle

\* One pass of the for loop of simulate: copy, update, compare.
SeqIterate ==
    /\ pc = "seq_loop"
    /\ iteration < cfg.iterations
    /\ LET before == grid    \* old_grid = self.grid.copy()
           u == SeqUpdate(grid, new_grid, cfg.width, cfg.height)
           max_diff == MaxAbsDiff(u.grid, before, cfg.width, cfg.height)
       IN /\ grid' = u.grid
          /\ new_grid' = u.new_grid
          /\ updates' = updates + 1
          /\ IF max_diff < cfg.convergence_threshold
             THEN /\ ret' = Returned(iteration + 1)
                  /\ pc' = "done"
                  /\ UNCHANGED iteration
             ELSE /\ iteration' = iteration + 1
                  /\ UNCHANGED <<ret, pc>>
    /\ UNCHANGED <<engine, cfg, bands, thrVars, shmVars, old_grid, distVars>>

\* return iterations
SeqExhausted ==
    /\ pc = "seq_loop"
    /\ iteration >= cfg.iterations
    /\ ret' = Returned(cfg.iterations)
    /\ pc' = "done"
    /\ UNCHANGED <<engine, cfg, grid, new_grid, bands, iteration, updates, thrVars, shmVars, old_grid, distVars>>

SeqNext == SeqIterate \/ SeqExhausted

SpecSeq == SeqInit /\ [][SeqNext]_vars

\* ------------------------- sequential engine, the end-to-end scenario
\* HeatDiffusionSequential(20, 20, initial_temp=0.0, boundary_temp=100.0)
\* .simulate(500, 1e-6).  Temperatures are integers in units of 1e-6
\* degree (Micro units per degree), so the threshold 1e-6 is one unit, and
\* "/ 4.0" rounds down.  Rounding down is monotone: after k updates a cell
\* of the model is at most the exact value and less than k units below it.
ScenarioSize == 20
ScenarioIterations == 500
Micro == 1000000

ScenarioConfig ==
    [width |-> ScenarioSize, height |-> ScenarioSize,
     iterations |-> ScenarioIterations, convergence_threshold |-> 1,
     num |-> 1, initial_temp |-> DefaultInitialTemp,
     boundary_temp |-> DefaultBoundaryTemp,
     min_size_for_parallel |-> DefaultMinSizeForParallel]

ScenarioGrid ==
    [r \in Rows(ScenarioSize) |-> [c \in Cols(ScenarioSize) |->
        IF IsBorder(r, c, ScenarioSize, ScenarioSize)
        THEN DefaultBoundaryTemp * Micro
        ELSE DefaultInitialTemp * Micro]]

ScenarioInit ==
    /\ engine = "seq"
    /\ cfg = ScenarioConfig
    /\ grid = ScenarioGrid
    /\ new_grid = grid
    /\ bands = << >>
    /\ pc = "seq_loop"
    /\ iteration = 0 /\ ret = Running /\ updates = 0
    /\ ThrIdle
    /\ ShmIdle
    /\ DistIdle

SpecScenario == ScenarioInit /\ [][SeqNext]_vars

\* -------------------------------- the mathematical reference (Jacobi)
JacobiStep(g, w, h) == JacobiBand(g, g, w, h, 1, h - 1)

RECURSIVE JacobiPow(_, _, _, _)
JacobiPow(g, k, w, h) ==
    IF k = 0 THEN g ELSE JacobiStep(JacobiPow(g, k - 1, w, h), w, h)

InitialGrid(c) == NewGrid(c.width, c.height, c.initial_temp, c.boundary_temp)

\* The first iteration k in 1..iterations whose maximum absolute per-cell
\* change from iteration k-1 is below the threshold, else the budget.
ConvergenceIteration(c) ==
    LET g0 == InitialGrid(c)
        Conv(k) == MaxAbsDiff(JacobiPow(g0, k, c.width, c.height),
                              JacobiPow(g0, k - 1, c.width, c.height),
                              c.width, c.height) < c.convergence_threshold
        hits == {k \in 1 .. c.iterations : Conv(k)}
    IN IF hits = {} THEN c.iterations
       ELSE CHOOSE k \in hits : \A j \in hits : k <= j

\* What the sequential engine leaves in self.grid for configuration c.
SequentialGrid(c) ==
    JacobiPow(InitialGrid(c), ConvergenceIteration(c), c.width, c.height)

\* np.mean(grid[1:-1, 1:-1]) as the sum over the interior: the number of
\* interior cells is the same on both sides of every comparison made here.
RECURSIVE SumOver(_, _)
SumOver(g, cells) ==
    IF cells = {} THEN 0
    ELSE LET x == CHOOSE y \in cells : TRUE
         IN g[x[1]][x[2]] + SumOver(g, cells \ {x})

InteriorSum(g, w, h) == SumOver(g, InteriorRows(h) \X InteriorCols(w))

\* --------------------------------------------------- threaded engine
\* Party 0 is the coordinator (the caller of simular), parties 1..n the
\* worker threads; worker t owns bands[t] and slot t of difs_max_locais.
Coord == 0
Workers == DOMAIN wpc
Parties == Cardinality(Workers) + 1

\* Faulty variant of the barriers: created for num_threads parties, so a
\* cycle completes while one party has not arrived.
BarrierWaitOneShort(waiting, party) ==
    LET all == waiting \cup {party}
    IN IF Cardinality(all) >= Parties - 1
       THEN [released |-> all, waiting |-> {}]
       ELSE [released |-> {}, waiting |-> all]

\* threading.Barrier(num_threads + 1).wait(): the last party to arrive
\* releases every waiting party and the barrier starts a new cycle.
BarrierWait(waiting, party) ==
    LET all == waiting \cup {party}
    IN IF Cardinality(all) = Parties
       THEN [released |-> all, waiting |-> {}]
       ELSE [released |-> {}, waiting |-> all]

\* Where a worker continues once released from the wait it is blocked in.
WorkerAfter(p) ==
    CASE p = "in_inicio" -> "check"       \* line 80
      [] p = "in_fim" -> "start"          \* line 86 -> 79
      [] p = "stop_in_fim" -> "exited"    \* line 81 -> break
      [] OTHER -> p

\* Faulty variant of atualizar: the coordinator goes on to the swap as
\* soon as it is released from barreira_inicio, without barreira_fim.
CoordAfterSkipsFim(p) ==
    CASE p = "w_inicio" -> "u_after"
      [] p = "w_fim" -> "u_after"
      [] p = "pw_inicio" -> "p_fim"
      [] p = "pw_fim" -> "p_join"
      [] OTHER -> p

\* Where the coordinator continues once released.
CoordAfter(p) ==
    CASE p = "w_inicio" -> "u_fim"        \* atualizar, line 97 -> 98
      [] p = "w_fim" -> "u_after"         \* atualizar, line 98 -> 100
      [] p = "pw_inicio" -> "p_fim"       \* _parar_trabalhadores, 90 -> 91
      [] p = "pw_fim" -> "p_join"         \* _parar_trabalhadores, 91 -> 93
      [] OTHER -> p

WpcAfterWait(r, t, label) ==
    [u \in Workers |->
        LET p == IF u = t THEN label ELSE wpc[u]
        IN IF u \in r.released THEN WorkerAfter(p) ELSE p]

PcAfterWait(r, label) ==
    IF Coord \in r.released THEN CoordAfter(label) ELSE label

\* max |new - old| over the interior cells of the band, 0.0 when empty
BandMaxDiff(g, w, start, end) ==
    SetMax({Abs(Stencil(g, r, c) - g[r][c]) :
                r \in start .. (end - 1), c \in InteriorCols(w)})

ThrInit ==
    /\ engine = "thr"
    /\ cfg \in Configs
    /\ grid = NewGrid(cfg.width, cfg.height, cfg.initial_temp, cfg.boundary_temp)
    /\ new_grid = grid
    /\ bands = CalcularFaixasThreads(cfg.height, ThreadCount(cfg.height, cfg.num))
    /\ pc = "loop"
    /\ iteration = 0 /\ ret = Running /\ updates = 0
    /\ wpc = [t \in 1 .. ThreadCount(cfg.height, cfg.num) |-> "start"]
    /\ barreira_inicio = {}
    /\ barreira_fim = {}
    /\ evento_parada = FALSE
    /\ difs_max_locais = [t \in 1 .. ThreadCount(cfg.height, cfg.num) |-> 0]
    /\ wround = [t \in 1 .. ThreadCount(cfg.height, cfg.num) |-> 0]
    /\ iteracoes_reais = 0
    /\ interrupted = FALSE
    /\ dead = {}
    /\ ShmIdle
    /\ DistIdle

\* _loop_trabalhador, line 79: self.barreira_inicio.wait()
WorkerWaitInicio(t) ==
    /\ wpc[t] = "start"
    /\ LET r == BarrierWait(barreira_inicio, t)
       IN /\ barreira_inicio' = r.waiting
          /\ wpc' = WpcAfterWait(r, t, "in_inicio")
          /\ pc' = IF Coord \in r.released THEN CoordAfter(pc) ELSE pc
    /\ UNCHANGED <<engine, cfg, grid, new_grid, bands, iteration, ret, updates,
                   barreira_fim, evento_parada, difs_max_locais, wround,
                   iteracoes_reais, interrupted, dead, shmVars, old_grid, distVars>>

\* Faulty variant of _loop_trabalhador line 80: the flag is not looked at.
WorkerCheckStopIgnored(t) ==
    /\ wpc[t] = "check"
    /\ wpc' = [wpc EXCEPT ![t] = "compute"]
    /\ UNCHANGED <<commonVars, barreira_inicio, barreira_fim, evento_parada,
                   difs_max_locais, wround, iteracoes_reais, interrupted, dead,
                   shmVars, old_grid, distVars>>

\* line 80: if self.evento_parada.is_set()
WorkerCheckStop(t) ==
    /\ wpc[t] = "check"
    /\ wpc' = [wpc EXCEPT ![t] = IF evento_parada THEN "stop_fim" ELSE "compute"]
    /\ UNCHANGED <<commonVars, barreira_inicio, barreira_fim, evento_parada,
                   difs_max_locais, wround, iteracoes_reais, interrupted, dead, shmVars, old_grid, distVars>>

\* Faulty variant of _atualizar_regiao: the new values are written into
\* self.grade itself instead of self.nova_grade.
WorkerComputeInPlace(t) ==
    /\ wpc[t] = "compute"
    /\ grid' = JacobiBand(grid, grid, cfg.width, cfg.height,
                          bands[t][1], bands[t][2])
    /\ difs_max_locais' = [difs_max_locais EXCEPT
                             ![t] = BandMaxDiff(grid, cfg.width, bands[t][1], bands[t][2])]
    /\ wround' = [wround EXCEPT ![t] = @ + 1]
    /\ wpc' = [wpc EXCEPT ![t] = "to_fim"]
    /\ UNCHANGED <<engine, cfg, new_grid, bands, pc, iteration, ret, updates,
                   barreira_inicio, barreira_fim, evento_parada,
                   iteracoes_reais, interrupted, dead, shmVars, old_grid, distVars>>

\* Faulty variant of _loop_trabalhador line 84: the band is updated but
\* the value returned by _atualizar_regiao is not stored in the slot.
WorkerComputeNoRecord(t) ==
    /\ wpc[t] = "compute"
    /\ new_grid' = JacobiBand(grid, new_grid, cfg.width, cfg.height,
                              bands[t][1], bands[t][2])
    /\ wround' = [wround EXCEPT ![t] = @ + 1]
    /\ wpc' = [wpc EXCEPT ![t] = "to_fim"]
    /\ UNCHANGED <<engine, cfg, grid, bands, pc, iteration, ret, updates,
                   barreira_inicio, barreira_fim, evento_parada, difs_max_locais,
                   iteracoes_reais, interrupted, dead, shmVars, old_grid, distVars>>

\* line 84: self.difs_max_locais[id] = self._atualizar_regiao(inicio, fim)
WorkerCompute(t) ==
    /\ wpc[t] = "compute"
    /\ new_grid' = JacobiBand(grid, new_grid, cfg.width, cfg.height,
                              bands[t][1], bands[t][2])
    /\ difs_max_locais' = [difs_max_locais EXCEPT
                             ![t] = BandMaxDiff(grid, cfg.width, bands[t][1], bands[t][2])]
    /\ wround' = [wround EXCEPT ![t] = @ + 1]
    /\ wpc' = [wpc EXCEPT ![t] = "to_fim"]
    /\ UNCHANGED <<engine, cfg, grid, bands, pc, iteration, ret, updates,
                   barreira_inicio, barreira_fim, evento_parada,
                   iteracoes_reais, interrupted, dead, shmVars, old_grid, distVars>>

\* lines 81 and 86: self.barreira_fim.wait()
WorkerWaitFim(t) ==
    /\ wpc[t] \in {"to_fim", "stop_fim"}
    /\ LET r == BarrierWait(barreira_fim, t)
           label == IF wpc[t] = "to_fim" THEN "in_fim" ELSE "stop_in_fim"
       IN /\ barreira_fim' = r.waiting
          /\ wpc' = WpcAfterWait(r, t, label)
          /\ pc' = IF Coord \in r.released THEN CoordAfter(pc) ELSE pc
    /\ UNCHANGED <<engine, cfg, grid, new_grid, bands, iteration, ret, updates,
                   barreira_inicio, evento_parada, difs_max_locais, wround,
                   iteracoes_reais, interrupted, dead, shmVars, old_grid, distVars>>

\* simular, line 108: for iteracao in range(iteracoes)
CoordLoop ==
    /\ pc = "loop"
    /\ pc' = IF iteration < cfg.iterations THEN "u_inicio" ELSE "parar"
    /\ UNCHANGED <<engine, cfg, grid, new_grid, bands, iteration, ret, updates, thrVars, shmVars, old_grid, distVars>>

\* atualizar line 97 and _parar_trabalhadores line 90: barreira_inicio.wait()
CoordWaitInicio ==
    /\ pc \in {"u_inicio", "p_inicio"}
    /\ LET r == BarrierWait(barreira_inicio, Coord)
           label == IF pc = "u_inicio" THEN "w_inicio" ELSE "pw_inicio"
       IN /\ barreira_inicio' = r.waiting
          /\ wpc' = WpcAfterWait(r, Coord, label)
          /\ pc' = PcAfterWait(r, label)
    /\ UNCHANGED <<engine, cfg, grid, new_grid, bands, iteration, ret, updates,
                   barreira_fim, evento_parada, difs_max_locais, wround,
                   iteracoes_reais, interrupted, dead, shmVars, old_grid, distVars>>

\* atualizar line 98 and _parar_trabalhadores line 91: barreira_fim.wait()
CoordWaitFim ==
    /\ pc \in {"u_fim", "p_fim"}
    /\ LET r == BarrierWait(barreira_fim, Coord)
           label == IF pc = "u_fim" THEN "w_fim" ELSE "pw_fim"
       IN /\ barreira_fim' = r.waiting
          /\ wpc' = WpcAfterWait(r, Coord, label)
          /\ pc' = PcAfterWait(r, label)
    /\ UNCHANGED <<engine, cfg, grid, new_grid, bands, iteration, ret, updates,
                   barreira_inicio, evento_parada, difs_max_locais, wround,
                   iteracoes_reais, interrupted, dead, shmVars, old_grid, distVars>>

\* Faulty variant of atualizar line 100: only the first worker's slot is
\* looked at.
FirstSlotDiff(difs) == difs[1]

\* max(self.difs_max_locais)
GlobalMaxDiff(difs) == SetMax({difs[t] : t \in DOMAIN difs})

\* atualizar lines 100-103 and simular lines 110-113: the global maximum,
\* the swap, the iteration count and the convergence test.
CoordFinishRound ==
    /\ pc = "u_after"
    /\ LET dif_maxima == GlobalMaxDiff(difs_max_locais)
       IN /\ grid' = new_grid
          /\ new_grid' = grid
          /\ updates' = updates + 1
          /\ iteracoes_reais' = iteration + 1
          /\ IF dif_maxima < cfg.convergence_threshold
             THEN pc' = "parar" /\ UNCHANGED iteration
             ELSE pc' = "loop" /\ iteration' = iteration + 1
    /\ UNCHANGED <<engine, cfg, bands, ret, wpc, barreira_inicio, barreira_fim,
                   evento_parada, difs_max_locais, wround, interrupted, dead, shmVars, old_grid, distVars>>

\* _parar_trabalhadores line 89: self.evento_parada.set()
CoordSetStop ==
    /\ pc = "parar"
    /\ evento_parada' = TRUE
    /\ pc' = "p_inicio"
    /\ UNCHANGED <<engine, cfg, grid, new_grid, bands, iteration, ret, updates,
                   wpc, barreira_inicio, barreira_fim, difs_max_locais, wround,
                   iteracoes_reais, interrupted, dead, shmVars, old_grid, distVars>>

\* lines 93-94 and 117: join every thread, then return (or let the error
\* raised in the try block go on).
CoordJoin ==
    /\ pc = "p_join"
    /\ \A t \in Workers : wpc[t] \in {"exited", "dead"}
    /\ pc' = "done"
    /\ ret' = IF interrupted THEN Raised ELSE Returned(iteracoes_reais)
    /\ UNCHANGED <<engine, cfg, grid, new_grid, bands, iteration, updates, thrVars, shmVars, old_grid, distVars>>

ThrNext ==
    \/ \E t \in Workers : WorkerWaitInicio(t)
    \/ \E t \in Workers : WorkerCheckStop(t)
    \/ \E t \in Workers : WorkerCompute(t)
    \/ \E t \in Workers : WorkerWaitFim(t)
    \/ CoordLoop
    \/ CoordWaitInicio
    \/ CoordWaitFim
    \/ CoordFinishRound
    \/ CoordSetStop
    \/ CoordJoin

SpecThr == ThrInit /\ [][ThrNext]_vars

\* ------------------------------------ threaded engine, a second call
\* simular is called again on the same instance after it has returned
\* (lines 105-107): a new budget and threshold, iteracoes_reais = 0.  The
\* grids, the barriers, the flag and the threads are the instance's and
\* stay as the first call left them.
SimularAgain ==
    /\ engine = "thr"
    /\ pc = "done"
    /\ ret.kind = "returned"
    /\ \E n \in 0 .. MaxIter, th \in Thresholds :
          cfg' = [cfg EXCEPT !.iterations = n, !.convergence_threshold = th]
    /\ pc' = "loop"
    /\ iteration' = 0
    /\ iteracoes_reais' = 0
    /\ ret' = Running
    /\ UNCHANGED <<engine, grid, new_grid, bands, updates, wpc, barreira_inicio,
                   barreira_fim, evento_parada, difs_max_locais, wround,
                   interrupted, dead, shmVars, old_grid, distVars>>

ThrAgainNext == ThrNext \/ SimularAgain

\* The coordinator and the worker threads keep running, and the caller
\* does make its second call.
SpecThrAgain == ThrInit /\ [][ThrAgainNext]_vars /\ WF_vars(ThrAgainNext)

\* ---------------------------------------- threaded engine with faults
\* An error raised in the coordinator inside the try block of simular (an
\* asynchronous exception such as KeyboardInterrupt can arrive at any
\* point, also inside Barrier.wait, whose finally clause then takes the
\* coordinator out of the waiting parties): control goes to the finally
\* clause, line 115.
CoordError ==
    /\ ~interrupted
    /\ dead = {}
    /\ pc \in {"loop", "u_inicio", "w_inicio", "u_fim", "w_fim", "u_after"}
    /\ interrupted' = TRUE
    /\ pc' = "parar"
    /\ barreira_inicio' = barreira_inicio \ {Coord}
    /\ barreira_fim' = barreira_fim \ {Coord}
    /\ UNCHANGED <<engine, cfg, grid, new_grid, bands, iteration, ret, updates,
                   wpc, evento_parada, difs_max_locais, wround, iteracoes_reais, dead, shmVars, old_grid, distVars>>

\* A worker thread dies with an exception raised by _atualizar_regiao
\* (line 84): the thread ends without reaching barreira_fim.
WorkerFail(t) ==
    /\ wpc[t] = "compute"
    /\ dead = {}
    /\ ~interrupted
    /\ wpc' = [wpc EXCEPT ![t] = "dead"]
    /\ dead' = {t}
    /\ UNCHANGED <<commonVars, barreira_inicio, barreira_fim, evento_parada,
                   difs_max_locais, wround, iteracoes_reais, interrupted, shmVars, old_grid, distVars>>

ThrFaultNext ==
    \/ ThrNext
    \/ CoordError
    \/ \E t \in Workers : WorkerFail(t)

SpecThrFault == ThrInit /\ [][ThrFaultNext]_vars

\* ---------------------------------- threaded engine with cancellation
\* Another thread raises the shared flag, self.evento_parada.set(), at any
\* moment while simular is running.
Cancel ==
    /\ engine = "thr"
    /\ pc # "done"
    /\ ~evento_parada
    /\ evento_parada' = TRUE
    /\ UNCHANGED <<commonVars, wpc, barreira_inicio, barreira_fim,
                   difs_max_locais, wround, iteracoes_reais, interrupted, dead,
                   shmVars, old_grid, distVars>>

ThrCancelNext == ThrNext \/ Cancel

SpecThrCancel == ThrInit /\ [][ThrCancelNext]_vars

\* ----------------------------------------------- shared-segment engine
ShmConfigs ==
    {[c EXCEPT !.min_size_for_parallel = m] : c \in Configs,
                                             m \in {3, DefaultMinSizeForParallel}}

NumProcesses(c) ==
    ProcessCount(c.width, c.height, c.num, c.min_size_for_parallel)

\* a[0, :] = a[-1, :] = a[:, 0] = a[:, -1] = boundary_temp
StampBorders(g, w, h, boundary_temp) ==
    [r \in Rows(h) |-> [c \in Cols(w) |->
        IF IsBorder(r, c, w, h) THEN boundary_temp * Scale ELSE g[r][c]]]

ShmInit ==
    /\ engine = "shm"
    /\ cfg \in ShmConfigs
    /\ grid = NewGrid(cfg.width, cfg.height, cfg.initial_temp, cfg.boundary_temp)
    /\ new_grid = grid
    /\ bands = CalculateProcessRanges(cfg.height, NumProcesses(cfg))
    /\ pc = "s_start"
    /\ iteration = 0 /\ ret = Running /\ updates = 0
    /\ ThrIdle
    /\ ShmIdle
    /\ DistIdle

\* simulate, lines 258-260: the try block is entered
ShmStart ==
    /\ pc = "s_start"
    /\ pc' = IF NumProcesses(cfg) > 1 THEN "s_create_a" ELSE "s_loop"
    /\ UNCHANGED <<engine, cfg, grid, new_grid, bands, iteration, ret, updates,
                   thrVars, shmVars, old_grid, distVars>>

\* _init_shared_memory, line 157: self.shm_a = SharedMemory(create=True, ...)
ShmCreateA ==
    /\ pc = "s_create_a"
    /\ seg_state' = [seg_state EXCEPT !["A"] = "open"]
    /\ shm_handles' = shm_handles \cup {"A"}
    /\ pc' = "s_create_b"
    /\ UNCHANGED <<engine, cfg, grid, new_grid, bands, iteration, ret, updates,
                   thrVars, seg_data, read_grid_name, write_grid_name,
                   read_array, write_array, pool, jobs, old_grid, pending, distVars>>

\* _init_shared_memory, lines 158-172: the second segment, the two arrays
\* seeded with the initial grid, the names and the array references.
ShmCreateB ==
    /\ pc = "s_create_b"
    /\ seg_state' = [seg_state EXCEPT !["B"] = "open"]
    /\ shm_handles' = shm_handles \cup {"B"}
    /\ seg_data' = [x \in Segments |-> grid]
    /\ read_grid_name' = "A"
    /\ write_grid_name' = "B"
    /\ read_array' = "A"
    /\ write_array' = "B"
    /\ pc' = "s_pool"
    /\ UNCHANGED <<engine, cfg, grid, new_grid, bands, iteration, ret, updates,
                   thrVars, pool, jobs, old_grid, pending, distVars>>

\* simulate, line 263: self.pool = mp.Pool(processes=self.num_processes)
ShmCreatePool ==
    /\ pc = "s_pool"
    /\ pool' = "open"
    /\ pc' = "s_loop"
    /\ UNCHANGED <<engine, cfg, grid, new_grid, bands, iteration, ret, updates,
                   thrVars, seg_state, seg_data, shm_handles, read_grid_name,
                   write_grid_name, read_array, write_array, jobs, old_grid, pending, distVars>>

\* iteration == 0 or iteration % 10 == 0
IsCheckIteration(i) == i = 0 \/ i % CheckInterval = 0

\* Faulty variant of update lines 222-230: the jobs are given the read
\* segment as their write target too.
ShmDispatchSameSegment ==
    /\ pc = "s_loop"
    /\ NumProcesses(cfg) > 1
    /\ iteration < cfg.iterations
    /\ old_grid' = IF IsCheckIteration(iteration) THEN seg_data[read_array] ELSE old_grid
    /\ read_array' = read_grid_name
    /\ write_array' = write_grid_name
    /\ seg_data' = [seg_data EXCEPT ![read_grid_name] =
                       StampBorders(@, cfg.width, cfg.height, cfg.boundary_temp)]
    /\ jobs' = [j \in 1 .. Len(bands) |->
                   [read |-> read_grid_name, write |-> read_grid_name,
                    start_row |-> bands[j][1], end_row |-> bands[j][2],
                    st |-> "queued"]]
    /\ pc' = "s_map"
    /\ UNCHANGED <<engine, cfg, grid, new_grid, bands, iteration, ret, updates,
                   thrVars, seg_state, shm_handles, read_grid_name,
                   write_grid_name, pool, pending, distVars>>

\* simulate lines 265-272 and update lines 203-233, more than one process:
\* the copy for the convergence test (check iterations only), the array
\* references chosen by name, the borders of the read segment, and the
\* jobs handed to pool.map.
ShmDispatch ==
    /\ pc = "s_loop"
    /\ NumProcesses(cfg) > 1
    /\ iteration < cfg.iterations
    /\ old_grid' = IF IsCheckIteration(iteration) THEN seg_data[read_array] ELSE old_grid
    /\ read_array' = read_grid_name
    /\ write_array' = write_grid_name
    /\ seg_data' = [seg_data EXCEPT ![read_grid_name] =
                       StampBorders(@, cfg.width, cfg.height, cfg.boundary_temp)]
    /\ jobs' = [j \in 1 .. Len(bands) |->
                   [read |-> read_grid_name, write |-> write_grid_name,
                    start_row |-> bands[j][1], end_row |-> bands[j][2],
                    st |-> "queued"]]
    /\ pc' = "s_map"
    /\ UNCHANGED <<engine, cfg, grid, new_grid, bands, iteration, ret, updates,
                   thrVars, seg_state, shm_handles, read_grid_name,
                   write_grid_name, pool, pending, distVars>>

\* _update_region_worker, lines 117-127: attach to both segments by name;
\* FileNotFoundError makes the job return without computing.
JobAttach(j) ==
    /\ jobs[j].st = "queued"
    /\ jobs' = [jobs EXCEPT ![j].st =
                   IF /\ seg_state[jobs[j].read] \in {"open", "closed"}
                      /\ seg_state[jobs[j].write] \in {"open", "closed"}
                   THEN "running" ELSE "skipped"]
    /\ UNCHANGED <<commonVars, thrVars, seg_state, seg_data, shm_handles,
                   read_grid_name, write_grid_name, read_array, write_array,
                   pool, old_grid, pending, distVars>>

\* _update_region_worker, lines 130-147: the band of the write segment
JobCompute(j) ==
    /\ jobs[j].st = "running"
    /\ seg_data' = [seg_data EXCEPT ![jobs[j].write] =
                       JacobiBand(seg_data[jobs[j].read], @, cfg.width, cfg.height,
                                  Max(1, jobs[j].start_row),
                                  Min(cfg.height - 1, jobs[j].end_row))]
    /\ jobs' = [jobs EXCEPT ![j].st = "done"]
    /\ UNCHANGED <<commonVars, thrVars, seg_state, shm_handles,
                   read_grid_name, write_grid_name, read_array, write_array,
                   pool, old_grid, pending, distVars>>

JobsFinished == \A j \in DOMAIN jobs : jobs[j].st \in {"done", "skipped", "failed"}

\* pool.map returns (every job finished, none raised); update lines
\* 236-245: borders of the written segment, the names and the local
\* buffers change roles; simulate lines 274-279: on a check iteration the
\* arrays are copied out through self.read_array and self.write_array and
\* compared with old_grid.
ShmFinishRound ==
    /\ pc = "s_map"
    /\ JobsFinished
    /\ \A j \in DOMAIN jobs : jobs[j].st # "failed"
    /\ LET stamped == [seg_data EXCEPT ![write_array] =
                          StampBorders(@, cfg.width, cfg.height, cfg.boundary_temp)]
           checked == IsCheckIteration(iteration)
           g == IF checked THEN stamped[read_array] ELSE new_grid
           ng == IF checked THEN stamped[write_array] ELSE grid
           max_diff == MaxAbsDiff(g, old_grid, cfg.width, cfg.height)
       IN /\ seg_data' = stamped
          /\ read_grid_name' = write_grid_name
          /\ write_grid_name' = read_grid_name
          /\ grid' = g
          /\ new_grid' = ng
          /\ updates' = updates + 1
          /\ jobs' = << >>
          /\ IF checked /\ max_diff < cfg.convergence_threshold
             THEN /\ pending' = [kind |-> "return", n |-> iteration + 1]
                  /\ pc' = "s_finally"
                  /\ UNCHANGED iteration
             ELSE /\ iteration' = iteration + 1
                  /\ pc' = "s_loop"
                  /\ UNCHANGED pending
    /\ UNCHANGED <<engine, cfg, bands, ret, thrVars, seg_state, shm_handles,
                   read_array, write_array, pool, old_grid, distVars>>

\* simulate lines 281-286, one process: the sequential pass
ShmSingleIterate ==
    /\ pc = "s_loop"
    /\ NumProcesses(cfg) = 1
    /\ iteration < cfg.iterations
    /\ LET u == SeqUpdate(grid, new_grid, cfg.width, cfg.height)
           max_diff == MaxAbsDiff(u.grid, grid, cfg.width, cfg.height)
       IN /\ old_grid' = grid
          /\ grid' = u.grid
          /\ new_grid' = u.new_grid
          /\ updates' = updates + 1
          /\ IF max_diff < cfg.convergence_threshold
             THEN /\ pending' = [kind |-> "return", n |-> iteration + 1]
                  /\ pc' = "s_finally"
                  /\ UNCHANGED iteration
             ELSE /\ iteration' = iteration + 1
                  /\ UNCHANGED <<pc, pending>>
    /\ UNCHANGED <<engine, cfg, bands, ret, thrVars, seg_state, seg_data,
                   shm_handles, read_grid_name, write_grid_name, read_array,
                   write_array, pool, jobs, distVars>>

\* simulate line 288: return iterations
ShmExhausted ==
    /\ pc = "s_loop"
    /\ iteration >= cfg.iterations
    /\ pending' = [kind |-> "return", n |-> cfg.iterations]
    /\ pc' = "s_finally"
    /\ UNCHANGED <<engine, cfg, grid, new_grid, bands, iteration, ret, updates,
                   thrVars, seg_state, seg_data, shm_handles, read_grid_name,
                   write_grid_name, read_array, write_array, pool, jobs, old_grid, distVars>>

\* finally, lines 291-292: self.pool.close() when there is a pool
ShmPoolClose ==
    /\ pc = "s_finally"
    /\ pool' = IF pool = "open" THEN "closed" ELSE pool
    /\ pc' = IF pool = "open" THEN "s_join" ELSE "s_cleanup_a"
    /\ UNCHANGED <<engine, cfg, grid, new_grid, bands, iteration, ret, updates,
                   thrVars, seg_state, seg_data, shm_handles, read_grid_name,
                   write_grid_name, read_array, write_array, jobs, old_grid, pending, distVars>>

\* Faulty variant of the finally clause: the pool is closed but not
\* joined, so its outstanding jobs are not waited for.
ShmPoolCloseOnly ==
    /\ pc = "s_join"
    /\ pc' = "s_cleanup_a"
    /\ UNCHANGED <<engine, cfg, grid, new_grid, bands, iteration, ret, updates,
                   thrVars, seg_state, seg_data, shm_handles, read_grid_name,
                   write_grid_name, read_array, write_array, pool, jobs, old_grid, pending, distVars>>

\* finally, lines 293-294: self.pool.join() returns once the worker
\* processes have finished every task handed to them and exited.
ShmPoolJoin ==
    /\ pc = "s_join"
    /\ JobsFinished
    /\ pool' = "joined"
    /\ pc' = "s_cleanup_a"
    /\ UNCHANGED <<engine, cfg, grid, new_grid, bands, iteration, ret, updates,
                   thrVars, seg_state, seg_data, shm_handles, read_grid_name,
                   write_grid_name, read_array, write_array, jobs, old_grid, pending, distVars>>

\* Faulty variant of _cleanup_shared_memory: close() without unlink().
CloseSegmentOnly(states, handles, x) ==
    IF x \in handles THEN [states EXCEPT ![x] = "closed"] ELSE states

\* shm.close(); shm.unlink(); handle = None  -- when the handle is not None
DestroySegment(states, handles, x) ==
    IF x \in handles THEN [states EXCEPT ![x] = "unlinked"] ELSE states

\* shm.unlink() raises FileNotFoundError when the name no longer exists
UnlinkRaises(x) == x \in shm_handles /\ seg_state[x] = "gone"

\* _cleanup_shared_memory, lines 180-183; an exception of unlink() leaves
\* the finally clause and ends simulate with the handles as they are.
ShmCleanupA ==
    /\ pc = "s_cleanup_a"
    /\ IF UnlinkRaises("A")
       THEN /\ ret' = Raised
            /\ pc' = "done"
            /\ UNCHANGED <<seg_state, shm_handles>>
       ELSE /\ seg_state' = DestroySegment(seg_state, shm_handles, "A")
            /\ shm_handles' = shm_handles \ {"A"}
            /\ pc' = "s_cleanup_b"
            /\ UNCHANGED ret
    /\ UNCHANGED <<engine, cfg, grid, new_grid, bands, iteration, updates,
                   thrVars, seg_data, read_grid_name, write_grid_name,
                   read_array, write_array, pool, jobs, old_grid, pending, distVars>>

\* _cleanup_shared_memory, lines 184-187, and the end of simulate
ShmCleanupB ==
    /\ pc = "s_cleanup_b"
    /\ IF UnlinkRaises("B")
       THEN /\ ret' = Raised
            /\ UNCHANGED <<seg_state, shm_handles>>
       ELSE /\ seg_state' = DestroySegment(seg_state, shm_handles, "B")
            /\ shm_handles' = shm_handles \ {"B"}
            /\ ret' = IF pending.kind = "return" THEN Returned(pending.n) ELSE Raised
    /\ pc' = "done"
    /\ UNCHANGED <<engine, cfg, grid, new_grid, bands, iteration, updates,
                   thrVars, seg_data, read_grid_name, write_grid_name,
                   read_array, write_array, pool, jobs, old_grid, pending, distVars>>

ShmNext ==
    \/ ShmStart
    \/ ShmCreateA
    \/ ShmCreateB
    \/ ShmCreatePool
    \/ ShmDispatch
    \/ \E j \in DOMAIN jobs : JobAttach(j)
    \/ \E j \in DOMAIN jobs : JobCompute(j)
    \/ ShmFinishRound
    \/ ShmSingleIterate
    \/ ShmExhausted
    \/ ShmPoolClose
    \/ ShmPoolJoin
    \/ ShmCleanupA
    \/ ShmCleanupB

SpecShm == ShmInit /\ [][ShmNext]_vars

\* The two engines whose workers write into a buffer they share.
SharedBufferInit == ThrInit \/ ShmInit
SharedBufferNext == ThrNext \/ ShmNext
SpecSharedBuffer == SharedBufferInit /\ [][SharedBufferNext]_vars

\* -------------------------------- shared-segment engine with faults
RaisePending == [kind |-> "raise", n |-> 0]

\* SharedMemory(create=True) raises for the first segment (line 157)
ShmCreateAFails ==
    /\ pc = "s_create_a"
    /\ pending' = RaisePending
    /\ pc' = "s_finally"
    /\ UNCHANGED <<engine, cfg, grid, new_grid, bands, iteration, ret, updates,
                   thrVars, seg_state, seg_data, shm_handles, read_grid_name,
                   write_grid_name, read_array, write_array, pool, jobs, old_grid, distVars>>

\* SharedMemory(create=True) raises for the second segment (line 158)
ShmCreateBFails ==
    /\ pc = "s_create_b"
    /\ pending' = RaisePending
    /\ pc' = "s_finally"
    /\ UNCHANGED <<engine, cfg, grid, new_grid, bands, iteration, ret, updates,
                   thrVars, seg_state, seg_data, shm_handles, read_grid_name,
                   write_grid_name, read_array, write_array, pool, jobs, old_grid, distVars>>

\* mp.Pool raises (line 263)
ShmCreatePoolFails ==
    /\ pc = "s_pool"
    /\ pending' = RaisePending
    /\ pc' = "s_finally"
    /\ UNCHANGED <<engine, cfg, grid, new_grid, bands, iteration, ret, updates,
                   thrVars, seg_state, seg_data, shm_handles, read_grid_name,
                   write_grid_name, read_array, write_array, pool, jobs, old_grid, distVars>>

\* a job raises inside _update_region_worker (an error other than
\* FileNotFoundError while attaching, lines 123-124)
JobFails(j) ==
    /\ jobs[j].st = "queued"
    /\ jobs' = [jobs EXCEPT ![j].st = "failed"]
    /\ UNCHANGED <<commonVars, thrVars, seg_state, seg_data, shm_handles,
                   read_grid_name, write_grid_name, read_array, write_array,
                   pool, old_grid, pending, distVars>>

\* pool.map (line 233) re-raises a job's exception once every job of the
\* call has finished
ShmMapRaises ==
    /\ pc = "s_map"
    /\ JobsFinished
    /\ \E j \in DOMAIN jobs : jobs[j].st = "failed"
    /\ pending' = RaisePending
    /\ pc' = "s_finally"
    /\ UNCHANGED <<engine, cfg, grid, new_grid, bands, iteration, ret, updates,
                   thrVars, seg_state, seg_data, shm_handles, read_grid_name,
                   write_grid_name, read_array, write_array, pool, jobs, old_grid, distVars>>

\* an exception reaches the caller while it is blocked in pool.map and
\* jobs of the call are still queued or running
ShmMapInterrupted ==
    /\ pc = "s_map"
    /\ ~JobsFinished
    /\ pending' = RaisePending
    /\ pc' = "s_finally"
    /\ UNCHANGED <<engine, cfg, grid, new_grid, bands, iteration, ret, updates,
                   thrVars, seg_state, seg_data, shm_handles, read_grid_name,
                   write_grid_name, read_array, write_array, pool, jobs, old_grid, distVars>>

ShmFaultNext ==
    \/ ShmNext
    \/ ShmCreateAFails
    \/ ShmCreateBFails
    \/ ShmCreatePoolFails
    \/ \E j \in DOMAIN jobs : JobFails(j)
    \/ ShmMapRaises
    \/ ShmMapInterrupted

SpecShmFault == ShmInit /\ [][ShmFaultNext]_vars

\* ------------------- shared-segment engine, a segment name disappears
\* The name of a segment is removed from the system by something other
\* than this run while a job of the current pool.map call has not yet
\* attached: the case the except clause of _update_region_worker (lines
\* 125-127) is written for.  Mappings that already exist stay usable.
SegmentVanishes(x) ==
    /\ engine = "shm"
    /\ pc = "s_map"
    /\ seg_state[x] = "open"
    /\ \E j \in DOMAIN jobs : jobs[j].st = "queued"
    /\ seg_state' = [seg_state EXCEPT ![x] = "gone"]
    /\ UNCHANGED <<commonVars, thrVars, seg_data, shm_handles,
                   read_grid_name, write_grid_name, read_array, write_array,
                   pool, jobs, old_grid, pending, distVars>>

ShmGoneNext ==
    \/ ShmFaultNext
    \/ \E x \in Segments : SegmentVanishes(x)

SpecShmGone == ShmInit /\ [][ShmGoneNext]_vars

\* ------------------------------------------------- distributed engine
\* Worker processes are 1..num_workers; workers[i] is the process whose
\* connection was accepted i-th and so owns bands[i].  A message is one
\* length-prefixed pickled slice, carried as the slice itself.
WorkerIds == DOMAIN wstate

\* Faulty variant of _send_grid_slice: the band's rows without the row
\* above and the row below.
GridSliceNoHalo(g, start_row, end_row, h) ==
    [i \in 0 .. (end_row - start_row - 1) |-> g[start_row + i]]

\* self.grid[send_start:send_end, :].copy(), rows renumbered from 0
GridSlice(g, start_row, end_row, h) ==
    LET send_start == Max(0, start_row - 1)
        send_end == Min(h, end_row + 1)
    IN [i \in 0 .. (send_end - send_start - 1) |-> g[send_start + i]]

\* DistributedWorker.process_slice, lines 236-249: the interior of the slice
ProcessSlice(slice_grid) ==
    LET sh == Cardinality(DOMAIN slice_grid)
        sw == Cardinality(DOMAIN slice_grid[0])
    IN [i \in 0 .. (sh - 1) |-> [c \in 0 .. (sw - 1) |->
           IF i >= 1 /\ i <= sh - 2 /\ c >= 1 /\ c <= sw - 2
           THEN Stencil(slice_grid, i, c)
           ELSE slice_grid[i][c]]]

\* Faulty variant of _receive_grid_slice: the halo row at the top of the
\* returned slice is not skipped.
StoreSliceNoOffset(ng, slice_data, start_row, end_row, w, h) ==
    LET actual_start == Max(1, start_row)
        actual_end == Min(h - 1, end_row)
    IN [r \in Rows(h) |-> [c \in Cols(w) |->
           IF r >= actual_start /\ r < actual_end /\ c \in InteriorCols(w)
           THEN slice_data[r - start_row][c]
           ELSE ng[r][c]]]

\* _receive_grid_slice, lines 121-133: the rows of the band, interior
\* columns only, copied from the returned slice into new_grid
StoreSlice(ng, slice_data, start_row, end_row, w, h) ==
    LET send_start == Max(0, start_row - 1)
        actual_start == Max(1, start_row)
        actual_end == Min(h - 1, end_row)
    IN [r \in Rows(h) |-> [c \in Cols(w) |->
           IF r >= actual_start /\ r < actual_end /\ c \in InteriorCols(w)
           THEN slice_data[r - send_start][c]
           ELSE ng[r][c]]]

\* The master's inputs.  num_workers up to one more than the interior rows
\* (the last band is then empty).
DistConfigs ==
    {c \in Configs : /\ c.width <= MaxDistWidth
                     /\ c.num <= MaxDistWorkers
                     /\ c.num <= c.height - 1}

DistInit ==
    /\ engine = "dist"
    /\ cfg \in DistConfigs
    /\ grid = NewGrid(cfg.width, cfg.height, cfg.initial_temp, cfg.boundary_temp)
    /\ new_grid = grid
    /\ bands = << >>
    /\ pc = "d_accept"
    /\ iteration = 0 /\ ret = Running /\ updates = 0
    /\ old_grid = << >>
    /\ ThrIdle
    /\ ShmIdle
    /\ workers = << >>
    /\ wstate = [w \in 1 .. cfg.num |-> "connecting"]
    /\ wslice = [w \in 1 .. cfg.num |-> << >>]
    /\ to_worker = [w \in 1 .. cfg.num |-> << >>]
    /\ to_master = [w \in 1 .. cfg.num |-> << >>]
    /\ idx = 0
    /\ sockets = {}
    /\ server_socket = "open"
    /\ wcap = [w \in 1 .. cfg.num |-> << >>]
    /\ wcount = [w \in 1 .. cfg.num |-> 0]
    /\ wret = [w \in 1 .. cfg.num |-> "running"]
    /\ data = << >>
    /\ unsent = << >>

\* run_distributed_server, lines 299-309: accept one connection and give
\* it the next band
DistAccept(w) ==
    /\ pc = "d_accept"
    /\ Len(workers) < cfg.num
    /\ wstate[w] = "connecting"
    /\ workers' = Append(workers, w)
    /\ bands' = Append(bands, ServerWorkerRanges(cfg.height, cfg.num)[Len(workers) + 1])
    /\ sockets' = sockets \cup {w}
    /\ wstate' = [wstate EXCEPT ![w] = "awaiting"]
    /\ UNCHANGED <<engine, cfg, grid, new_grid, pc, iteration, ret, updates,
                   old_grid, thrVars, shmVars, wslice, to_worker, to_master,
                   idx, server_socket, wrunVars,
                   streamVars>>

\* simulate, lines 161-162 and 170: the loop header, old_grid = grid.copy()
DistLoop ==
    /\ pc \in {"d_accept", "d_loop"}
    /\ Len(workers) = cfg.num
    /\ IF iteration < cfg.iterations
       THEN /\ old_grid' = grid
            /\ idx' = 1
            /\ pc' = "d_send"
            /\ UNCHANGED ret
       ELSE /\ ret' = Returned(cfg.iterations)
            /\ pc' = "d_close"
            /\ UNCHANGED <<old_grid, idx>>
    /\ UNCHANGED <<engine, cfg, grid, new_grid, bands, iteration, updates,
                   thrVars, shmVars, workers, wstate, wslice, to_worker,
                   to_master, sockets, server_socket, wrunVars,
                   streamVars>>

\* Faulty variant of the send loop of update: the connections are walked
\* from the last accepted to the first.
DistSendReverseOrder ==
    /\ pc = "d_send"
    /\ LET k == Len(workers) - idx + 1
           w == workers[k]
       IN to_worker' = [to_worker EXCEPT ![w] =
              Append(@, GridSlice(grid, bands[k][1], bands[k][2], cfg.height))]
    /\ IF idx < Len(workers)
       THEN idx' = idx + 1 /\ UNCHANGED pc
       ELSE idx' = 1 /\ pc' = "d_recv"
    /\ UNCHANGED <<engine, cfg, grid, new_grid, bands, iteration, ret, updates,
                   old_grid, thrVars, shmVars, workers, wstate, wslice,
                   to_master, sockets, server_socket, wrunVars,
                   streamVars>>

\* Faulty variant of _send_grid_slice: the slice is cut from the buffer
\* being written, self.new_grid, instead of self.grid.
DistSendFromNextGrid ==
    /\ pc = "d_send"
    /\ LET w == workers[idx]
       IN to_worker' = [to_worker EXCEPT ![w] =
              Append(@, GridSlice(new_grid, bands[idx][1], bands[idx][2], cfg.height))]
    /\ IF idx < Len(workers)
       THEN idx' = idx + 1 /\ UNCHANGED pc
       ELSE idx' = 1 /\ pc' = "d_recv"
    /\ UNCHANGED <<engine, cfg, grid, new_grid, bands, iteration, ret, updates,
                   old_grid, thrVars, shmVars, workers, wstate, wslice,
                   to_master, sockets, server_socket, wrunVars,
                   streamVars>>

\* update, lines 140-141: _send_grid_slice to the idx-th worker
DistSend ==
    /\ pc = "d_send"
    /\ LET w == workers[idx]
       IN to_worker' = [to_worker EXCEPT ![w] =
              Append(@, GridSlice(grid, bands[idx][1], bands[idx][2], cfg.height))]
    /\ IF idx < Len(workers)
       THEN idx' = idx + 1 /\ UNCHANGED pc
       ELSE idx' = 1 /\ pc' = "d_recv"
    /\ UNCHANGED <<engine, cfg, grid, new_grid, bands, iteration, ret, updates,
                   old_grid, thrVars, shmVars, workers, wstate, wslice,
                   to_master, sockets, server_socket, wrunVars,
                   streamVars>>

\* Faulty variant of _receive_grid_slice: the returned rows are stored
\* into self.grid instead of self.new_grid.
DistReceiveIntoGrid ==
    /\ pc = "d_recv"
    /\ LET w == workers[idx]
       IN /\ to_master[w] # << >>
          /\ grid' = StoreSlice(grid, Head(to_master[w]), bands[idx][1],
                                bands[idx][2], cfg.width, cfg.height)
          /\ to_master' = [to_master EXCEPT ![w] = Tail(@)]
    /\ IF idx < Len(workers)
       THEN idx' = idx + 1 /\ UNCHANGED pc
       ELSE idx' = 0 /\ pc' = "d_swap"
    /\ UNCHANGED <<engine, cfg, new_grid, bands, iteration, ret, updates,
                   old_grid, thrVars, shmVars, workers, wstate, wslice,
                   to_worker, sockets, server_socket, wrunVars, streamVars>>

\* update, lines 144-145: _receive_grid_slice from the idx-th worker
DistReceive ==
    /\ pc = "d_recv"
    /\ LET w == workers[idx]
       IN /\ to_master[w] # << >>
          /\ new_grid' = StoreSlice(new_grid, Head(to_master[w]), bands[idx][1],
                                    bands[idx][2], cfg.width, cfg.height)
          /\ to_master' = [to_master EXCEPT ![w] = Tail(@)]
    /\ IF idx < Len(workers)
       THEN idx' = idx + 1 /\ UNCHANGED pc
       ELSE idx' = 0 /\ pc' = "d_swap"
    /\ UNCHANGED <<engine, cfg, grid, bands, iteration, ret, updates,
                   old_grid, thrVars, shmVars, workers, wstate, wslice,
                   to_worker, sockets, server_socket, wrunVars,
                   streamVars>>

\* update line 148 and simulate lines 166-168: swap, then the convergence
\* test on the whole grid
DistFinishRound ==
    /\ pc = "d_swap"
    /\ grid' = new_grid
    /\ new_grid' = grid
    /\ updates' = updates + 1
    /\ IF MaxAbsDiff(new_grid, old_grid, cfg.width, cfg.height) < cfg.convergence_threshold
       THEN /\ ret' = Returned(iteration + 1)
            /\ pc' = "d_close"
            /\ UNCHANGED iteration
       ELSE /\ iteration' = iteration + 1
            /\ pc' = "d_loop"
            /\ UNCHANGED ret
    /\ UNCHANGED <<engine, cfg, bands, old_grid, thrVars, shmVars, distVars>>

\* Faulty variant of the end of run_distributed_server: simulation.close()
\* is left out, only the listening socket is closed.
DistCloseServerOnly ==
    /\ pc = "d_close"
    /\ server_socket' = "closed"
    /\ pc' = "done"
    /\ UNCHANGED <<engine, cfg, grid, new_grid, bands, iteration, ret, updates,
                   old_grid, thrVars, shmVars, workers, wstate, wslice, to_worker,
                   to_master, idx, sockets, wrunVars,
                   streamVars>>

\* run_distributed_server, lines 329-330: simulation.close(), server_socket.close()
DistClose ==
    /\ pc = "d_close"
    /\ sockets' = {}
    /\ workers' = << >>
    /\ server_socket' = "closed"
    /\ pc' = "done"
    /\ UNCHANGED <<engine, cfg, grid, new_grid, bands, iteration, ret, updates,
                   old_grid, thrVars, shmVars, wstate, wslice, to_worker,
                   to_master, idx, wrunVars,
                   streamVars>>

\* process_slice, lines 220-235: a whole message is read
WorkerReceive(w) ==
    /\ wstate[w] = "awaiting"
    /\ to_worker[w] # << >>
    /\ wslice' = [wslice EXCEPT ![w] = Head(to_worker[w])]
    /\ to_worker' = [to_worker EXCEPT ![w] = Tail(@)]
    /\ wstate' = [wstate EXCEPT ![w] = "processing"]
    /\ UNCHANGED <<commonVars, old_grid, thrVars, shmVars, workers, to_master,
                   idx, sockets, server_socket, wrunVars,
                   streamVars>>

\* process_slice, lines 240-249
WorkerProcess(w) ==
    /\ wstate[w] = "processing"
    /\ wslice' = [wslice EXCEPT ![w] = ProcessSlice(@)]
    /\ wstate' = [wstate EXCEPT ![w] = "sending"]
    /\ UNCHANGED <<commonVars, old_grid, thrVars, shmVars, workers, to_worker,
                   to_master, idx, sockets, server_socket, wrunVars,
                   streamVars>>

\* `if iterations and iteration >= iterations: break` (lines 350-351): a
\* cap of None or 0 is falsy and never ends the loop.
CapReached(cap, count) == cap # << >> /\ cap[1] # 0 /\ count >= cap[1]

\* process_slice, lines 252-258, then iteration += 1 and the cap test at
\* the top of the worker's loop: the worker goes back to recv, or leaves
\* the loop, closes its socket (finally) and returns.
WorkerSend(w) ==
    /\ wstate[w] = "sending"
    /\ to_master' = [to_master EXCEPT ![w] = Append(@, wslice[w])]
    /\ wslice' = [wslice EXCEPT ![w] = << >>]
    /\ wcount' = [wcount EXCEPT ![w] = @ + 1]
    /\ IF CapReached(wcap[w], wcount[w] + 1)
       THEN /\ wstate' = [wstate EXCEPT ![w] = "closed"]
            /\ wret' = [wret EXCEPT ![w] = "returned"]
       ELSE /\ wstate' = [wstate EXCEPT ![w] = "awaiting"]
            /\ UNCHANGED wret
    /\ UNCHANGED <<commonVars, old_grid, thrVars, shmVars, workers, to_worker,
                   idx, sockets, server_socket, wcap,
                   streamVars>>

\* run_distributed_worker, lines 356-359: recv returns b'' once the master
\* has closed the connection; ConnectionError ends the loop, the socket
\* is closed
WorkerEndOfStream(w) ==
    /\ wstate[w] = "awaiting"
    /\ to_worker[w] = << >>
    /\ pc = "done"
    /\ w \notin sockets
    /\ wstate' = [wstate EXCEPT ![w] = "closed"]
    /\ wret' = [wret EXCEPT ![w] = "returned"]
    /\ UNCHANGED <<commonVars, old_grid, thrVars, shmVars, workers, wslice,
                   to_worker, to_master, idx, sockets, server_socket, wcap, wcount,
                   streamVars>>

DistNext ==
    \/ \E w \in WorkerIds : DistAccept(w)
    \/ DistLoop
    \/ DistSend
    \/ DistReceive
    \/ DistFinishRound
    \/ DistClose
    \/ \E w \in WorkerIds : WorkerReceive(w)
    \/ \E w \in WorkerIds : WorkerProcess(w)
    \/ \E w \in WorkerIds : WorkerSend(w)
    \/ \E w \in WorkerIds : WorkerEndOfStream(w)

SpecDist == DistInit /\ [][DistNext]_vars

\* The grids of up to two interior rows, cold inside
DistFaultConfigs ==
    {c \in DistConfigs : /\ c.height <= 4
                         /\ c.convergence_threshold # 0
                         /\ c.initial_temp = DefaultInitialTemp}

DistLiveInit == DistInit /\ cfg \in DistFaultConfigs

\* The master and the workers are processes of their own and keep
\* running: a step that stays possible is eventually taken.
SpecDistLive == DistLiveInit /\ [][DistNext]_vars /\ WF_vars(DistNext)

\* ------------------------- distributed engine, connections as streams
\* The same master and workers with every connection as a bounded byte
\* stream: a message travels as its length prefix and then its rows, one
\* chunk each, a sendall blocks while the connection's buffer is full, and
\* a recv takes what has arrived.  Process 0 is the master.
Master == 0

\* struct.pack('!I', size) followed by pickle.dumps(slice)
Chunks(slice) ==
    LET n == Cardinality(DOMAIN slice)
    IN <<[size |-> n]>> \o [i \in 1 .. n |-> [row |-> slice[i - 1]]]

\* the receive loops, lines 111-115 and 228-232: all `size` rows are there
Complete(d) == d # << >> /\ Len(d) = 1 + d[1].size

\* pickle.loads(data)
Unchunk(d) == [i \in 0 .. (d[1].size - 1) |-> d[i + 2].row]

\* The master's inputs (three columns: a row is one chunk whatever its
\* width) and the capacity of a connection's buffer, in chunks
StreamConfigs ==
    {[buffer |-> b] @@ c : b \in 1 .. MaxBuf,
                           c \in {d \in DistFaultConfigs :
                                     /\ d.width = 3
                                     /\ d.convergence_threshold = DefaultThreshold}}

StreamInit ==
    /\ engine = "dist"
    /\ cfg \in StreamConfigs
    /\ grid = NewGrid(cfg.width, cfg.height, cfg.initial_temp, cfg.boundary_temp)
    /\ new_grid = grid
    /\ bands = << >>
    /\ pc = "d_accept"
    /\ iteration = 0 /\ ret = Running /\ updates = 0
    /\ old_grid = << >>
    /\ ThrIdle
    /\ ShmIdle
    /\ workers = << >>
    /\ wstate = [w \in 1 .. cfg.num |-> "connecting"]
    /\ wslice = [w \in 1 .. cfg.num |-> << >>]
    /\ to_worker = [w \in 1 .. cfg.num |-> << >>]
    /\ to_master = [w \in 1 .. cfg.num |-> << >>]
    /\ idx = 0
    /\ sockets = {}
    /\ server_socket = "open"
    /\ wcap = [w \in 1 .. cfg.num |-> << >>]
    /\ wcount = [w \in 1 .. cfg.num |-> 0]
    /\ wret = [w \in 1 .. cfg.num |-> "running"]
    /\ data = [p \in 0 .. cfg.num |-> << >>]
    /\ unsent = [p \in 0 .. cfg.num |-> << >>]

\* Faulty variant of _send_grid_slice: the slice is sent twice in a row.
StreamSendStartTwice ==
    /\ pc = "d_send"
    /\ LET m == Chunks(GridSlice(grid, bands[idx][1], bands[idx][2], cfg.height))
       IN unsent' = [unsent EXCEPT ![Master] = m \o m]
    /\ pc' = "d_sendall"
    /\ UNCHANGED <<engine, cfg, grid, new_grid, bands, iteration, ret, updates,
                   old_grid, thrVars, shmVars, workers, wstate, wslice,
                   to_worker, to_master, idx, sockets, server_socket,
                   wrunVars, data>>

\* _send_grid_slice, lines 80-87: the slice of the idx-th worker is
\* copied and serialised
StreamSendStart ==
    /\ pc = "d_send"
    /\ unsent' = [unsent EXCEPT ![Master] =
           Chunks(GridSlice(grid, bands[idx][1], bands[idx][2], cfg.height))]
    /\ pc' = "d_sendall"
    /\ UNCHANGED <<engine, cfg, grid, new_grid, bands, iteration, ret, updates,
                   old_grid, thrVars, shmVars, workers, wstate, wslice,
                   to_worker, to_master, idx, sockets, server_socket,
                   wrunVars, data>>

\* _send_grid_slice, lines 90-91, and the loop of update, lines 140-141:
\* sendall hands over the next chunk once the buffer has room; after the
\* last chunk the send loop goes on to the next worker.
StreamSend ==
    /\ pc = "d_sendall"
    /\ LET w == workers[idx]
       IN /\ Len(to_worker[w]) < cfg.buffer
          /\ to_worker' = [to_worker EXCEPT ![w] = Append(@, Head(unsent[Master]))]
    /\ unsent' = [unsent EXCEPT ![Master] = Tail(@)]
    /\ IF Len(unsent[Master]) > 1
       THEN UNCHANGED <<pc, idx>>
       ELSE IF idx < Len(workers)
            THEN idx' = idx + 1 /\ pc' = "d_send"
            ELSE idx' = 1 /\ pc' = "d_recv"
    /\ UNCHANGED <<engine, cfg, grid, new_grid, bands, iteration, ret, updates,
                   old_grid, thrVars, shmVars, workers, wstate, wslice,
                   to_master, sockets, server_socket, wrunVars, data>>

\* _receive_grid_slice, lines 103-133, and the loop of update, lines
\* 144-145: recv takes the next chunk of the idx-th worker's result; with
\* the last one the result is deserialised and stored into new_grid.
StreamReceive ==
    /\ pc = "d_recv"
    /\ LET w == workers[idx]
           d == Append(data[Master], Head(to_master[w]))
       IN /\ to_master[w] # << >>
          /\ to_master' = [to_master EXCEPT ![w] = Tail(@)]
          /\ IF Complete(d)
             THEN /\ new_grid' = StoreSlice(new_grid, Unchunk(d), bands[idx][1],
                                            bands[idx][2], cfg.width, cfg.height)
                  /\ data' = [data EXCEPT ![Master] = << >>]
                  /\ IF idx < Len(workers)
                     THEN idx' = idx + 1 /\ UNCHANGED pc
                     ELSE idx' = 0 /\ pc' = "d_swap"
             ELSE /\ data' = [data EXCEPT ![Master] = d]
                  /\ UNCHANGED <<new_grid, pc, idx>>
    /\ UNCHANGED <<engine, cfg, grid, bands, iteration, ret, updates,
                   old_grid, thrVars, shmVars, workers, wstate, wslice,
                   to_worker, sockets, server_socket, wrunVars, unsent>>

\* process_slice, lines 220-235: recv takes the next chunk; with the last
\* one the slice is deserialised
StreamWorkerReceive(w) ==
    /\ wstate[w] = "awaiting"
    /\ to_worker[w] # << >>
    /\ to_worker' = [to_worker EXCEPT ![w] = Tail(@)]
    /\ LET d == Append(data[w], Head(to_worker[w]))
       IN IF Complete(d)
          THEN /\ wslice' = [wslice EXCEPT ![w] = Unchunk(d)]
               /\ data' = [data EXCEPT ![w] = << >>]
               /\ wstate' = [wstate EXCEPT ![w] = "processing"]
          ELSE /\ data' = [data EXCEPT ![w] = d]
               /\ UNCHANGED <<wslice, wstate>>
    /\ UNCHANGED <<commonVars, old_grid, thrVars, shmVars, workers, to_master,
                   idx, sockets, server_socket, wrunVars, unsent>>

\* process_slice, lines 240-253: the stencil, then the result is serialised
StreamWorkerProcess(w) ==
    /\ wstate[w] = "processing"
    /\ wslice' = [wslice EXCEPT ![w] = ProcessSlice(@)]
    /\ unsent' = [unsent EXCEPT ![w] = Chunks(ProcessSlice(wslice[w]))]
    /\ wstate' = [wstate EXCEPT ![w] = "sending"]
    /\ UNCHANGED <<commonVars, old_grid, thrVars, shmVars, workers, to_worker,
                   to_master, idx, sockets, server_socket, wrunVars, data>>

\* process_slice, lines 255-258: sendall hands over the next chunk once
\* the buffer has room; after the last one iteration += 1 and the worker
\* is back at the top of its loop (no cap: the next recv).
StreamWorkerSend(w) ==
    /\ wstate[w] = "sending"
    /\ Len(to_master[w]) < cfg.buffer
    /\ to_master' = [to_master EXCEPT ![w] = Append(@, Head(unsent[w]))]
    /\ unsent' = [unsent EXCEPT ![w] = Tail(@)]
    /\ IF Len(unsent[w]) > 1
       THEN UNCHANGED <<wslice, wstate, wcount>>
       ELSE /\ wslice' = [wslice EXCEPT ![w] = << >>]
            /\ wcount' = [wcount EXCEPT ![w] = @ + 1]
            /\ wstate' = [wstate EXCEPT ![w] = "awaiting"]
    /\ UNCHANGED <<commonVars, old_grid, thrVars, shmVars, workers, to_worker,
                   idx, sockets, server_socket, wcap, wret, data>>

StreamNext ==
    \/ \E w \in WorkerIds : DistAccept(w)
    \/ DistLoop
    \/ StreamSendStart
    \/ StreamSend
    \/ StreamReceive
    \/ DistFinishRound
    \/ DistClose
    \/ \E w \in WorkerIds : StreamWorkerReceive(w)
    \/ \E w \in WorkerIds : StreamWorkerProcess(w)
    \/ \E w \in WorkerIds : StreamWorkerSend(w)
    \/ \E w \in WorkerIds : WorkerEndOfStream(w)

\* The master and the workers are processes of their own and keep
\* running: a step that stays possible is eventually taken.
SpecStream == StreamInit /\ [][StreamNext]_vars /\ WF_vars(StreamNext)

\* -------------------------------------- distributed engine with faults
\* iterations=None or a cap 0 .. MaxCap
Caps == {<< >>} \cup {<<c>> : c \in 0 .. MaxCap}

\* As DistInit; the first worker process may have been started with an
\* iteration cap.
DistFaultInit ==
    /\ engine = "dist"
    /\ cfg \in DistFaultConfigs
    /\ grid = NewGrid(cfg.width, cfg.height, cfg.initial_temp, cfg.boundary_temp)
    /\ new_grid = grid
    /\ bands = << >>
    /\ pc = "d_accept"
    /\ iteration = 0 /\ ret = Running /\ updates = 0
    /\ old_grid = << >>
    /\ ThrIdle
    /\ ShmIdle
    /\ workers = << >>
    /\ wstate = [w \in 1 .. cfg.num |-> "connecting"]
    /\ wslice = [w \in 1 .. cfg.num |-> << >>]
    /\ to_worker = [w \in 1 .. cfg.num |-> << >>]
    /\ to_master = [w \in 1 .. cfg.num |-> << >>]
    /\ idx = 0
    /\ sockets = {}
    /\ server_socket = "open"
    /\ \E cap \in Caps : wcap = [w \in 1 .. cfg.num |-> IF w = 1 THEN cap ELSE << >>]
    /\ wcount = [w \in 1 .. cfg.num |-> 0]
    /\ wret = [w \in 1 .. cfg.num |-> "running"]
    /\ data = << >>
    /\ unsent = << >>

\* The exceptions a socket call of the worker can end with: a
\* ConnectionError (end of stream seen by process_slice lines 222 and 231,
\* ConnectionResetError, BrokenPipeError), or another OSError (e.g.
\* TimeoutError for ETIMEDOUT, EHOSTUNREACH).
TransportErrors == {"ConnectionError", "OSError"}

\* run_distributed_worker, lines 353-359: the worker's recv (awaiting) or
\* sendall (sending) raises.  `except (ConnectionError, EOFError): break`
\* ends the loop and the function returns; any other exception passes the
\* except clause.  Either way the finally clause closes the socket.
WorkerTransportError(w, err) ==
    /\ wstate[w] \in {"awaiting", "sending"}
    /\ pc # "done"
    /\ \A u \in WorkerIds : wstate[u] # "closed"
    /\ wstate' = [wstate EXCEPT ![w] = "closed"]
    /\ wslice' = [wslice EXCEPT ![w] = << >>]
    /\ wret' = [wret EXCEPT ![w] = IF err = "ConnectionError" THEN "returned"
                                                             ELSE "raised"]
    /\ UNCHANGED <<commonVars, old_grid, thrVars, shmVars, workers, to_worker,
                   to_master, idx, sockets, server_socket, wcap, wcount,
                   streamVars>>

\* update line 141: sendall to a worker that has closed its end raises
\* (BrokenPipeError / ConnectionResetError); nothing catches it in
\* update, simulate or run_distributed_server, which has no finally.
DistSendFails ==
    /\ pc = "d_send"
    /\ wstate[workers[idx]] = "closed"
    /\ ret' = Raised
    /\ pc' = "done"
    /\ UNCHANGED <<engine, cfg, grid, new_grid, bands, iteration, updates,
                   old_grid, thrVars, shmVars, distVars>>

\* Faulty variant of _receive_grid_slice: a short read is swallowed and
\* the master goes on to the next connection without this band.
DistReceiveSkipsClosed ==
    /\ pc = "d_recv"
    /\ wstate[workers[idx]] = "closed"
    /\ to_master[workers[idx]] = << >>
    /\ IF idx < Len(workers)
       THEN idx' = idx + 1 /\ UNCHANGED pc
       ELSE idx' = 0 /\ pc' = "d_swap"
    /\ UNCHANGED <<engine, cfg, grid, new_grid, bands, iteration, ret, updates,
                   old_grid, thrVars, shmVars, workers, wstate, wslice,
                   to_worker, to_master, sockets, server_socket, wrunVars,
                   streamVars>>

\* _receive_grid_slice lines 103-105 and 113-115: recv returns b'' from a
\* worker that has closed its end, ConnectionError is raised and leaves
\* run_distributed_server before lines 329-330.
DistReceiveFails ==
    /\ pc = "d_recv"
    /\ wstate[workers[idx]] = "closed"
    /\ to_master[workers[idx]] = << >>
    /\ ret' = Raised
    /\ pc' = "done"
    /\ UNCHANGED <<engine, cfg, grid, new_grid, bands, iteration, updates,
                   old_grid, thrVars, shmVars, distVars>>

DistFaultNext ==
    \/ DistNext
    \/ \E w \in WorkerIds, err \in TransportErrors : WorkerTransportError(w, err)
    \/ DistSendFails
    \/ DistReceiveFails

SpecDistFault == DistFaultInit /\ [][DistFaultNext]_vars

\* ----------------------------- the engines that test every round
\* sequential, threaded and distributed side by side
Init == SeqInit \/ ThrInit \/ DistInit

Next == SeqNext \/ ThrNext \/ DistNext

Spec == Init /\ [][Next]_vars

\* ------------------------------------------------- all four engines
AllInit == SeqInit \/ ThrInit \/ ShmInit \/ DistInit

AllNext == SeqNext \/ ThrNext \/ ShmNext \/ DistNext

SpecAll == AllInit /\ [][AllNext]_vars

\* ------------------------------------------------------------ claims
\* Two grids agree within the tolerance 0.1 of the quick tests: every cell
\* differs by less than 0.1 and the interior means differ by at most 0.1
\* (temperatures are scaled by Scale, the means by the interior size).
WithinTolerance(a, b, w, h) ==
    /\ 10 * MaxAbsDiff(a, b, w, h) < Scale
    /\ 10 * Abs(InteriorSum(a, w, h) - InteriorSum(b, w, h))
          <= Scale * (w - 2) * (h - 2)

\* C2: for the same width, height, budget and threshold the threaded
\* engine, with any thread count >= 1, ends simular with a grid that
\* agrees with the sequential engine's grid, cell by cell and in the
\* interior mean, within 0.1.
C2_ThreadedMatchesSequential ==
    (engine = "thr" /\ ret.kind = "returned")
        => WithinTolerance(grid, SequentialGrid(cfg), cfg.width, cfg.height)

C2_Witness ==
    /\ engine = "thr"
    /\ ret.kind = "returned"
    /\ Len(bands) >= 2
    /\ ret.n >= 2
    /\ grid # InitialGrid(cfg)

\* C3: for the same width, height, budget and threshold the shared-segment
\* engine running with more than one process ends simulate with a grid
\* (get_grid, get_average_temp) that agrees with the sequential engine's
\* within 0.1.
C3_SharedMatchesSequential ==
    (engine = "shm" /\ ret.kind = "returned" /\ NumProcesses(cfg) > 1)
        => WithinTolerance(grid, SequentialGrid(cfg), cfg.width, cfg.height)

\* C4: with between 1 and height-2 workers, all alive, the distributed
\* master ends simulate with the sequential engine's grid, whatever order
\* the workers connected in.
C4_DistributedMatchesSequential ==
    (engine = "dist" /\ ret.kind = "returned" /\ cfg.num <= cfg.height - 2)
        => WithinTolerance(grid, SequentialGrid(cfg), cfg.width, cfg.height)

C4_Witness ==
    /\ engine = "dist"
    /\ pc = "d_close"
    /\ cfg.num <= cfg.height - 2
    /\ Len(workers) >= 2
    /\ workers[1] > workers[2]
    /\ updates >= 2
    /\ grid # InitialGrid(cfg)

\* C5: the sequential, threaded and distributed engines return the same
\* iterationsRun for the same inputs: the first iteration k whose maximum
\* absolute per-cell change from iteration k-1 is below the threshold, or
\* the budget when there is none.
C5_SameIterationsRun ==
    (engine \in {"seq", "thr", "dist"} /\ ret.kind = "returned")
        => ret.n = ConvergenceIteration(cfg)

C5_Witness ==
    /\ engine \in {"thr", "dist"}
    /\ ret.kind = "returned"
    /\ Len(bands) >= 2
    /\ ret.n > 1
    /\ ret.n < cfg.iterations

\* C6: when simulate returns n then 0 <= n <= iterations, exactly n update
\* rounds were executed, and the grid exposed afterwards is the result of
\* exactly n Jacobi steps applied to the initial grid -- here for the
\* shared-segment engine.
C6_GridOfReturnedIteration ==
    (engine = "shm" /\ ret.kind = "returned")
        => /\ 0 <= ret.n /\ ret.n <= cfg.iterations
           /\ updates = ret.n
           /\ grid = JacobiPow(InitialGrid(cfg), ret.n, cfg.width, cfg.height)

\* C7: threaded engine, no worker failure: on every exit path of simular,
\* an error raised in the coordinator at any point of a round included,
\* nobody is left blocked forever on a barrier (a step is possible until
\* simular has ended) and simular ends with every worker thread
\* terminated.
C7_StopHandshakeAlways ==
    (engine = "thr" /\ dead = {})
        => IF pc = "done"
           THEN \A t \in Workers : wpc[t] = "exited"
           ELSE ENABLED ThrFaultNext

\* C8: threaded engine: when a worker thread dies in the middle of a round
\* simular does not hang (a step is possible until it has ended) and it
\* ends by surfacing an error with the remaining workers stopped and
\* joined.
C8_WorkerFailureSurfaces ==
    (engine = "thr" /\ dead # {})
        => IF pc = "done"
           THEN /\ ret = Raised
                /\ \A t \in Workers \ dead : wpc[t] = "exited"
           ELSE ENABLED ThrFaultNext

C10_PoolStoppedBeforeDestroy ==
    (engine = "shm" /\ \E x \in Segments : seg_state[x] \in {"closed", "unlinked"})
        => /\ pool \in {"none", "joined"}
           /\ \A j \in DOMAIN jobs : jobs[j].st \notin {"queued", "running"}

C10_Witness ==
    /\ engine = "shm"
    /\ seg_state["A"] = "unlinked"
    /\ pool = "joined"
    /\ pending = RaisePending
    /\ jobs # << >>
    /\ \E j \in DOMAIN jobs : jobs[j].st = "done"

\* C11: distributed master: when the master's run has ended, on success
\* and also when simulate failed mid-run (a worker connection closed
\* during a round), every worker socket and the listening socket have been
\* closed.
C11_MasterSocketsClosed ==
    (engine = "dist" /\ pc = "done")
        => (sockets = {} /\ server_socket = "closed")

\* C12: distributed engine: a run requested with a worker count below 1 or
\* above height-2 is rejected: no round is run and no iteration count is
\* returned.
C12_InvalidPartitionRejected ==
    (engine = "dist" /\ (cfg.num < 1 \/ cfg.num > cfg.height - 2))
        => (updates = 0 /\ ret.kind # "returned")

\* C13: in-process engines clamp the worker count: for height >= 3 the
\* number of workers used is min(max(requested, 1), height-2) and every
\* band is non-empty -- for the threaded engine, and for the shared-segment
\* engine whenever the grid is large enough for it to use its processes.
C13_WorkerCountClamped ==
    (\/ pc = "part_done_thr"
     \/ /\ pc = "part_done_shm"
        /\ Min(cfg.width, cfg.height) >= cfg.min_size_for_parallel)
        => /\ Len(bands) = Min(Max(cfg.num, 1), cfg.height - 2)
           /\ \A i \in 1 .. Len(bands) : bands[i][1] < bands[i][2]

\* Every border cell of g holds the boundary temperature.
BordersHold(g, w, h, boundary_temp) ==
    \A r \in Rows(h), c \in Cols(w) :
        IsBorder(r, c, w, h) => g[r][c] = boundary_temp * Scale

\* C14: in every reachable state of every engine all border cells of the
\* current and of the next buffer (and of both shared segments, once
\* seeded) hold boundaryTemp: no update, reassembly or swap changes them.
C14_BordersFixed ==
    (engine \in {"seq", "thr", "shm", "dist"})
        => /\ BordersHold(grid, cfg.width, cfg.height, cfg.boundary_temp)
           /\ BordersHold(new_grid, cfg.width, cfg.height, cfg.boundary_temp)
           /\ \A x \in Segments :
                  seg_data[x] # << >>
                      => BordersHold(seg_data[x], cfg.width, cfg.height, cfg.boundary_temp)

C14_Witness ==
    /\ engine = "shm"
    /\ NumProcesses(cfg) > 1
    /\ updates >= 2
    /\ cfg.initial_temp # cfg.boundary_temp
    /\ seg_data["A"] # seg_data["B"]

\* C15: when initialTemp equals boundaryTemp, one Jacobi step leaves every
\* cell unchanged and simulate with a budget >= 1 and a positive threshold
\* returns exactly 1, in the sequential, threaded and distributed engines.
C15_UniformGridReturnsOne ==
    (/\ engine \in {"seq", "thr", "dist"}
     /\ ret.kind = "returned"
     /\ cfg.initial_temp = cfg.boundary_temp
     /\ cfg.iterations >= 1
     /\ cfg.convergence_threshold > 0)
        => /\ ret.n = 1
           /\ updates = 1
           /\ grid = InitialGrid(cfg)

C15_Witness ==
    /\ engine = "dist"
    /\ ret.kind = "returned"
    /\ cfg.initial_temp = cfg.boundary_temp
    /\ cfg.iterations >= 2
    /\ cfg.convergence_threshold > 0
    /\ Len(bands) >= 2
    /\ updates = 1

\* simulate left its loop through the convergence test (the return or
\* break inside the loop), not by exhausting range(iterations).
ConvergedExit == iteration < cfg.iterations

\* C16: not converging within the budget is not an error: simulate returns
\* normally with iterationsRun = iterations, and the result tells the
\* caller whether the run converged: a returned count equal to the budget
\* means the budget was exhausted, a smaller one means convergence.
C16_BudgetMissSignalled ==
    (engine \in {"seq", "thr", "dist"} /\ pc = "done")
        => /\ ret.kind = "returned"
           /\ ConvergedExit <=> ret.n < cfg.iterations

\* C19: shared-segment engine with more than one process: if the
\* sequential engine returns c for the same inputs, the shared-segment
\* engine returns r with c <= r <= min(c + 9, iterations).
C19_OvershootBounded ==
    (engine = "shm" /\ ret.kind = "returned" /\ NumProcesses(cfg) > 1)
        => /\ ConvergenceIteration(cfg) <= ret.n
           /\ ret.n <= Min(ConvergenceIteration(cfg) + CheckInterval - 1,
                           cfg.iterations)

\* C20: threaded engine: if the shared flag evento_parada is raised at any
\* moment while simular is running, the run still ends cleanly: no thread
\* stays blocked on a barrier (a step is possible until simular has
\* ended), and simular ends with every worker terminated.
C20_CancellationEndsCleanly ==
    (engine = "thr")
        => IF pc = "done"
           THEN ret.kind = "returned" /\ \A t \in Workers : wpc[t] = "exited"
           ELSE ENABLED ThrCancelNext

\* C17: distributed worker: an end-of-stream or any transport error on its
\* connection (while awaiting a slice or while sending a result) is a
\* normal termination: whenever the worker has closed its socket,
\* run_distributed_worker has returned without raising.
C17_TransportErrorIsNormalEnd ==
    (engine = "dist")
        => \A w \in WorkerIds : wstate[w] = "closed" => wret[w] = "returned"

\* The slices a worker has taken off its connection so far: those it has
\* answered plus the one it holds.
SlicesTaken(w) ==
    wcount[w] + (IF wstate[w] \in {"processing", "sending"} THEN 1 ELSE 0)

\* C18: distributed worker: a worker started with an iteration cap c >= 0
\* (0 included) takes and answers at most c slices.
C18_CapRespected ==
    (engine = "dist")
        => \A w \in WorkerIds : wcap[w] # << >> => SlicesTaken(w) <= wcap[w][1]

\* ------------------------------------------------------- band sizes
BandSize(band) == band[2] - band[1]

\* C21: with w the effective worker count, base = (height-2) div w and
\* remainder = (height-2) mod w, band i (0-based) has exactly
\* base + (1 if i < remainder else 0) rows in every engine, so two band
\* sizes differ by at most 1 and the larger bands come first.
C21_BandSizes ==
    PartDone =>
        LET w == Len(bands)
            base == (cfg.height - 2) \div w
            remainder == (cfg.height - 2) % w
        IN /\ w = (CASE pc = "part_done_thr" -> ThreadCount(cfg.height, cfg.num)
                     [] pc = "part_done_shm" ->
                            ProcessCount(cfg.width, cfg.height, cfg.num,
                                         cfg.min_size_for_parallel)
                     [] OTHER -> cfg.num)
           /\ \A i \in 0 .. (w - 1) :
                 BandSize(bands[i + 1]) = base + (IF i < remainder THEN 1 ELSE 0)
           /\ \A i, j \in 1 .. w :
                 /\ Abs(BandSize(bands[i]) - BandSize(bands[j])) <= 1
                 /\ i < j => BandSize(bands[i]) >= BandSize(bands[j])

C21_Witness ==
    /\ pc = "part_done_dist"
    /\ Len(bands) >= 3
    /\ (cfg.height - 2) % Len(bands) >= 2
    /\ (cfg.height - 2) \div Len(bands) >= 1
    /\ BandSize(bands[1]) = BandSize(bands[Len(bands)]) + 1

\* A job of some round did not compute its band: it raised, or its attach
\* failed because a segment name had disappeared (SegmentVanishes only
\* happens while a job has still to attach, and such a job ends skipped
\* or failed).
JobFailureSeen ==
    \/ \E x \in Segments : seg_state[x] = "gone"
    \/ \E j \in DOMAIN jobs : jobs[j].st \in {"failed", "skipped"}

\* C22: shared-segment engine: if a worker job fails during a round (for
\* example it cannot attach to the read or write segment), the whole
\* simulate call fails with an error after teardown (pool joined, both
\* segments destroyed, no handle left); simulate never returns a result
\* for a round in which some band was not computed.
C22_JobFailureFailsAfterTeardown ==
    (engine = "shm" /\ pc = "done" /\ JobFailureSeen)
        => /\ ret = Raised
           /\ pool = "joined"
           /\ shm_handles = {}
           /\ \A x \in Segments : seg_state[x] \in {"unlinked", "gone"}

\* ------------------------------------------------ scenario (20 x 20)
\* The sum over the interior of (boundary temperature - cell), in units
\* of 1e-6 degree: get_average_temp() is the boundary temperature minus
\* this sum divided by the number of interior cells.
RECURSIVE DeficitOfRow(_, _)
DeficitOfRow(r, c) ==
    IF c > ScenarioSize - 2 THEN 0
    ELSE (DefaultBoundaryTemp * Micro - grid[r][c]) + DeficitOfRow(r, c + 1)

RECURSIVE DeficitFromRow(_)
DeficitFromRow(r) ==
    IF r > ScenarioSize - 2 THEN 0
    ELSE DeficitOfRow(r, 1) + DeficitFromRow(r + 1)

ScenarioDeficit == DeficitFromRow(1)

ScenarioCells == (ScenarioSize - 2) * (ScenarioSize - 2)

ScenarioDone == cfg = ScenarioConfig /\ pc = "done"

\* C23 as stated: the sequential engine on a 20x20 grid with
\* boundaryTemp=100, initialTemp=0, threshold 1e-6 and a budget of 500
\* iterations reports convergence at some iteration strictly below 500,
\* with a mean interior temperature within 0.01 of 100.0.
C23_ScenarioConverges ==
    ScenarioDone =>
        /\ ret.kind = "returned"
        /\ ret.n < ScenarioIterations
        /\ ScenarioDeficit <= ScenarioCells * (Micro \div 100)

\* C23 amended: on that scenario the sequential engine does not converge
\* within the budget: every one of the 500 updates changes some cell by
\* more than the threshold (by more than the rounding margin of the model
\* plus one unit), simulate returns 500, and the mean interior temperature
\* is then within 0.1 of 100.0 but not within 0.01 (it is about 99.92).
C23_ScenarioExhaustsBudget ==
    cfg = ScenarioConfig =>
        /\ updates >= 1 =>
              MaxAbsDiff(grid, new_grid, ScenarioSize, ScenarioSize) > updates + 1
        /\ pc = "done" =>
              /\ ret = Returned(ScenarioIterations)
              /\ updates = ScenarioIterations
              /\ ScenarioDeficit - updates * ScenarioCells
                    > ScenarioCells * (Micro \div 100)
              /\ ScenarioDeficit <= ScenarioCells * (Micro \div 10)

C23_Witness ==
    /\ ScenarioDone
    /\ updates = ScenarioIterations
    /\ ret = Returned(ScenarioIterations)
    /\ grid[1][1] > 99 * Micro
    /\ grid[ScenarioSize \div 2][ScenarioSize \div 2] < 100 * Micro

\* -------------------------------------- threaded engine, lock-step
\* Worker t is about to perform, or is performing, its Jacobi step.
Computing(t) == wpc[t] = "compute"

\* C24: threaded engine lock-step: no worker begins its Jacobi step of
\* round N+1 until every worker has finished writing its band and recorded
\* its local max-difference for round N and the coordinator has passed
\* doneBarrier for round N (and completed it); at no time are two workers
\* computing different rounds.
C24_LockStep ==
    engine = "thr" =>
        \A t \in Workers :
            Computing(t) =>
                /\ updates = wround[t]
                /\ pc \in {"u_fim", "w_fim"}
                /\ \A u \in Workers :
                      /\ wround[u] \in {wround[t], wround[t] + 1}
                      /\ Computing(u) => wround[u] = wround[t]
                      /\ wround[u] = wround[t] + 1 => wpc[u] \in {"to_fim", "in_fim"}

C24_Witness ==
    /\ engine = "thr"
    /\ \E t, u \in Workers :
          /\ Computing(t)
          /\ wround[t] >= 1
          /\ wpc[u] = "in_fim"
          /\ wround[u] = wround[t] + 1

\* C25: threaded engine Jacobi semantics: the coordinator swaps the
\* current/next grid roles only while no worker is inside its Jacobi step
\* (every worker is between doneBarrier and the next startBarrier), so
\* within one round all workers read the same buffer and write the other
\* one, and every cell written in round N+1 is computed only from round-N
\* values, including the halo rows owned by neighbouring bands.
C25_SwapOutsideJacobiStep ==
    engine = "thr" =>
        /\ grid = JacobiPow(InitialGrid(cfg), updates, cfg.width, cfg.height)
        /\ pc = "u_after" =>
              \A t \in Workers : /\ wpc[t] \in {"start", "in_inicio"}
                                 /\ wround[t] = updates + 1
        /\ \A t \in Workers :
              wround[t] = updates + 1 =>
                  \A r \in BandRows(bands[t]), c \in InteriorCols(cfg.width) :
                      new_grid[r][c] = Stencil(grid, r, c)

C25_Witness ==
    /\ engine = "thr"
    /\ pc = "u_after"
    /\ updates >= 1
    /\ Cardinality(Workers) >= 2
    /\ \E t \in Workers : wpc[t] = "in_inicio"
    /\ \E r \in InteriorRows(cfg.height), c \in InteriorCols(cfg.width) :
          new_grid[r][c] # grid[r][c]

\* -------------------------------------------- writes stay in the band
\* The cells in which two grids differ.
ChangedCells(a, b, w, h) ==
    {rc \in Rows(h) \X Cols(w) : a[rc[1]][rc[2]] # b[rc[1]][rc[2]]}

BandInterior(band, w) == BandRows(band) \X InteriorCols(w)

\* C26: in the threaded and shared-segment engines no two tasks ever write
\* the same grid cell in a round: the bands are pairwise disjoint, each
\* worker writes only interior cells of rows inside its own band of the
\* write buffer (and, in the threaded engine, only its own slot of the
\* local max-difference array), and no worker writes the read buffer.
C26_WritesStayInBand ==
    /\ [](\A i, j \in 1 .. Len(bands) :
             i # j => BandRows(bands[i]) \cap BandRows(bands[j]) = {})
    /\ [][/\ \A t \in Workers :
               (wpc[t] = "compute" /\ wpc'[t] # "compute") =>
                   /\ grid' = grid
                   /\ ChangedCells(new_grid', new_grid, cfg.width, cfg.height)
                          \subseteq BandInterior(bands[t], cfg.width)
                   /\ \A u \in Workers \ {t} :
                          difs_max_locais'[u] = difs_max_locais[u]
          /\ \A j \in DOMAIN jobs :
               (jobs[j].st = "running" /\ j \in DOMAIN jobs' /\ jobs'[j].st = "done") =>
                   /\ jobs[j].read # jobs[j].write
                   /\ seg_data'[jobs[j].read] = seg_data[jobs[j].read]
                   /\ ChangedCells(seg_data'[jobs[j].write], seg_data[jobs[j].write],
                                   cfg.width, cfg.height)
                          \subseteq BandInterior(bands[j], cfg.width)]_vars

C26_Witness ==
    /\ engine = "shm"
    /\ pc = "s_map"
    /\ updates >= 1
    /\ \E j, k \in DOMAIN jobs :
          /\ jobs[j].st = "done"
          /\ jobs[k].st = "running"
          /\ ChangedCells(seg_data[jobs[j].write], seg_data[jobs[j].read],
                          cfg.width, cfg.height)
                \cap BandInterior(bands[j], cfg.width) # {}

\* C27: threaded engine: the max-difference the coordinator uses to decide
\* convergence after round N is the maximum of the local values that all
\* workers recorded during round N itself: when the coordinator reads the
\* slots every worker has performed its step of round N, every slot holds
\* the max-difference of its band for that round, and their maximum is
\* the max-difference between the grid of round N and the one before.
C27_SlotsOfThisRound ==
    (engine = "thr" /\ pc = "u_after") =>
        /\ \A t \in Workers :
              /\ wround[t] = updates + 1
              /\ difs_max_locais[t] =
                    BandMaxDiff(grid, cfg.width, bands[t][1], bands[t][2])
        /\ GlobalMaxDiff(difs_max_locais) =
              MaxAbsDiff(new_grid, grid, cfg.width, cfg.height)

C27_Witness ==
    /\ engine = "thr"
    /\ pc = "u_after"
    /\ updates >= 1
    /\ \E t, u \in Workers :
          /\ difs_max_locais[t] > difs_max_locais[u]
          /\ difs_max_locais[u] > 0

\* ------------------------------------- threaded engine, stop handshake
\* A worker that took the stop branch (lines 80-82).
Stopping(t) == wpc[t] \in {"stop_fim", "stop_in_fim", "exited"}

\* The coordinator is in _parar_trabalhadores (lines 88-94).
InStopHandshake ==
    pc \in {"parar", "p_inicio", "pw_inicio", "p_fim", "pw_fim", "p_join"}

\* C28: threaded engine: a worker that sees the stop flag set after being
\* released from startBarrier performs no computation, goes straight to
\* doneBarrier and then terminates; the stop handshake leaves both grids
\* and the iteration count unchanged, so the grid returned by obter_grade
\* is the one from the last completed round.
C28_StopHandshakeFrame ==
    /\ [][\A t \in Workers :
            /\ (wpc[t] = "check" /\ evento_parada /\ wpc'[t] # "check")
                   => wpc'[t] = "stop_fim"
            /\ Stopping(t) =>
                   /\ Stopping(t)'
                   /\ wround'[t] = wround[t]
                   /\ difs_max_locais'[t] = difs_max_locais[t]
            /\ (Stopping(t) /\ wpc'[t] # wpc[t]) =>
                   (grid' = grid /\ new_grid' = new_grid)]_vars
    /\ [][InStopHandshake =>
            /\ grid' = grid
            /\ new_grid' = new_grid
            /\ updates' = updates
            /\ iteracoes_reais' = iteracoes_reais]_vars
    /\ []((engine = "thr" /\ pc = "done") =>
            /\ ret = Returned(updates)
            /\ grid = JacobiPow(InitialGrid(cfg), updates, cfg.width, cfg.height))

C28_Witness ==
    /\ engine = "thr"
    /\ pc = "done"
    /\ updates >= 2
    /\ Cardinality(Workers) >= 2
    /\ \A t \in Workers : wpc[t] = "exited"
    /\ new_grid # grid

\* ---------------------------------- shared-segment engine, ping-pong
\* A multi-process run whose two segments exist.
SegmentsInUse ==
    /\ engine = "shm"
    /\ NumProcesses(cfg) > 1
    /\ \A x \in Segments : seg_state[x] = "open"

\* C29: shared-segment ping-pong: in every state of a multi-process run
\* readName and writeName name the two different segments A and B, they
\* are exchanged exactly once per completed iteration, and after k
\* completed iterations the segment named by readName holds the grid after
\* k Jacobi steps while no job of iteration k+1 is given the same segment
\* as both read and write target.
C29_PingPong ==
    /\ [](SegmentsInUse =>
            /\ read_grid_name \in Segments
            /\ write_grid_name \in Segments
            /\ read_grid_name # write_grid_name
            /\ read_grid_name = (IF updates % 2 = 0 THEN "A" ELSE "B")
            /\ seg_data[read_grid_name] =
                  JacobiPow(InitialGrid(cfg), updates, cfg.width, cfg.height)
            /\ \A j \in DOMAIN jobs :
                  /\ jobs[j].read = read_grid_name
                  /\ jobs[j].write = write_grid_name
                  /\ jobs[j].read # jobs[j].write)
    /\ [][(SegmentsInUse /\ SegmentsInUse') =>
            IF updates' = updates + 1
            THEN /\ read_grid_name' = write_grid_name
                 /\ write_grid_name' = read_grid_name
            ELSE /\ updates' = updates
                 /\ read_grid_name' = read_grid_name
                 /\ write_grid_name' = write_grid_name]_vars

C29_Witness ==
    /\ SegmentsInUse
    /\ pc = "s_map"
    /\ updates = 2
    /\ read_grid_name = "A"
    /\ seg_data["A"] # seg_data["B"]
    /\ \E j \in DOMAIN jobs : jobs[j].st = "done"

\* C30: shared-segment engine with more than one process: at every
\* iteration where convergence is checked (including the first), the
\* value compared with the threshold is the maximum absolute difference
\* between the grid produced by that iteration and the grid it was
\* computed from, so simulate stops early only if that iteration really
\* changed every cell by less than the threshold.
C30_EarlyStopMeansSmallChange ==
    (/\ engine = "shm"
     /\ NumProcesses(cfg) > 1
     /\ pc = "done"
     /\ ret.kind = "returned"
     /\ ret.n < cfg.iterations)
        => MaxAbsDiff(JacobiPow(InitialGrid(cfg), updates, cfg.width, cfg.height),
                      JacobiPow(InitialGrid(cfg), updates - 1, cfg.width, cfg.height),
                      cfg.width, cfg.height) < cfg.convergence_threshold

\* --------------------------------- distributed master, one iteration
\* Slices the master has sent to worker w so far: those still on the
\* connection plus those the worker has taken.
SlicesSentTo(w) == Len(to_worker[w]) + SlicesTaken(w)

\* Results the master has received from worker w so far: those the worker
\* has sent minus those still on the connection.
ResultsReceivedFrom(w) == wcount[w] - Len(to_master[w])

\* C31: distributed master, within one iteration: every worker's slice is
\* sent before any result is received, sends and receives both follow
\* connection order, and exactly one slice is sent to and exactly one
\* result received from each worker per iteration.
C31_SendAllThenReceiveAll ==
    (engine = "dist" /\ pc \in {"d_loop", "d_send", "d_recv", "d_swap", "d_close"}) =>
        LET n == Len(workers)
            sent(i) == SlicesSentTo(workers[i])
            received(i) == ResultsReceivedFrom(workers[i])
        IN /\ \A i \in 1 .. n :
                 /\ sent(i) \in {updates, updates + 1}
                 /\ received(i) \in {updates, updates + 1}
                 /\ received(i) <= sent(i)
           /\ (\E i \in 1 .. n : received(i) = updates + 1)
                 => \A j \in 1 .. n : sent(j) = updates + 1
           /\ \A i, j \in 1 .. n :
                 i < j => /\ sent(i) >= sent(j)
                          /\ received(i) >= received(j)
           /\ pc \in {"d_loop", "d_close"} =>
                 \A i \in 1 .. n : sent(i) = updates /\ received(i) = updates
           /\ pc = "d_swap" =>
                 \A i \in 1 .. n : sent(i) = updates + 1 /\ received(i) = updates + 1

C31_Witness ==
    /\ engine = "dist"
    /\ pc = "d_recv"
    /\ updates >= 1
    /\ Len(workers) >= 3
    /\ workers[1] > workers[2]
    /\ ResultsReceivedFrom(workers[1]) = updates + 1
    /\ ResultsReceivedFrom(workers[2]) = updates
    /\ to_master[workers[3]] # << >>

\* The master is inside simulate, between the first loop header and close.
MasterRunning ==
    engine = "dist" /\ pc \in {"d_loop", "d_send", "d_recv", "d_swap", "d_close"}

\* C32: distributed engine round discipline: the master sends no slice of
\* round N+1 before it has received the results of all workers for round
\* N and swapped grids, and every slice sent in round N (band rows and
\* halo rows) contains only round-N values of the read grid, never a
\* value received from a worker in the same round.
C32_RoundDiscipline ==
    /\ []((engine = "dist" /\ pc \in {"d_loop", "d_close"}) =>
            grid = JacobiPow(InitialGrid(cfg), updates, cfg.width, cfg.height))
    /\ [][(engine = "dist" /\ pc \in {"d_send", "d_recv"}) =>
            (grid' = grid /\ updates' = updates)]_vars
    /\ [](MasterRunning =>
            /\ \A i, j \in 1 .. Len(workers) :
                  /\ SlicesSentTo(workers[i]) <= updates + 1
                  /\ SlicesSentTo(workers[i]) <= ResultsReceivedFrom(workers[j]) + 1
            /\ \A i \in 1 .. Len(workers) :
                  LET w == workers[i]
                      s == GridSlice(grid, bands[i][1], bands[i][2], cfg.height)
                  IN /\ \A k \in 1 .. Len(to_worker[w]) : to_worker[w][k] = s
                     /\ wstate[w] = "processing" => wslice[w] = s)

C32_Witness ==
    /\ engine = "dist"
    /\ pc = "d_send"
    /\ idx = 2
    /\ updates >= 1
    /\ to_worker[workers[1]] # << >>
    /\ bands[1][2] - bands[1][1] >= 1
    /\ grid # new_grid
    /\ grid # InitialGrid(cfg)

\* ------------------------------------------ distributed reassembly
\* `slice` is rows [start-1, end+1) of g, renumbered from 0.
IsHaloSliceOf(slice, g, band) ==
    /\ DOMAIN slice = 0 .. (band[2] - band[1] + 1)
    /\ \A i \in DOMAIN slice : slice[i] = g[band[1] - 1 + i]

\* `result` is the slice of g for the band with exactly the band's rows
\* updated in their interior columns, halo rows and border columns kept.
IsBandResultOf(result, g, band, w) ==
    /\ DOMAIN result = 0 .. (band[2] - band[1] + 1)
    /\ \A i \in DOMAIN result : \A c \in Cols(w) :
          result[i][c] =
              IF band[1] - 1 + i \in BandRows(band) /\ c \in InteriorCols(w)
              THEN Stencil(g, band[1] - 1 + i, c)
              ELSE g[band[1] - 1 + i][c]

\* C33: distributed reassembly: the slice sent for band [start, end) is
\* exactly rows [start-1, end+1) of the read grid, the rows the worker
\* updates in it are exactly the band's rows, and on receipt the master
\* copies into the next grid only the interior cells of rows [start, end)
\* of that worker's band (halo rows and border columns of the returned
\* slice are ignored); after a completed round every interior row of the
\* next grid has been written exactly once, by the worker that owns it.
C33_Reassembly ==
    /\ [](MasterRunning =>
            /\ \A i \in 1 .. Len(workers) :
                  LET w == workers[i]
                  IN /\ \A k \in 1 .. Len(to_worker[w]) :
                            IsHaloSliceOf(to_worker[w][k], grid, bands[i])
                     /\ wstate[w] = "sending" =>
                            IsBandResultOf(wslice[w], grid, bands[i], cfg.width)
                     /\ \A k \in 1 .. Len(to_master[w]) :
                            IsBandResultOf(to_master[w][k], grid, bands[i], cfg.width)
                     /\ ResultsReceivedFrom(w) = updates + 1 =>
                            \A r \in BandRows(bands[i]), c \in InteriorCols(cfg.width) :
                                new_grid[r][c] = Stencil(grid, r, c)
            /\ BandsPartitionInterior(bands, cfg.height)
            /\ pc = "d_swap" =>
                  /\ new_grid = JacobiStep(grid, cfg.width, cfg.height)
                  /\ \A i \in 1 .. Len(workers) :
                        ResultsReceivedFrom(workers[i]) = updates + 1)
    /\ [][(engine = "dist" /\ pc = "d_recv") =>
            ChangedCells(new_grid', new_grid, cfg.width, cfg.height)
                \subseteq BandInterior(bands[idx], cfg.width)]_vars

C33_Witness ==
    /\ engine = "dist"
    /\ pc = "d_recv"
    /\ idx = 2
    /\ updates >= 1
    /\ Len(workers) >= 2
    /\ bands[1][2] - bands[1][1] >= 2
    /\ \E c \in InteriorCols(cfg.width) :
          /\ new_grid[bands[1][1]][c] # grid[bands[1][1]][c]
          /\ new_grid[bands[2][1]][c] # Stencil(grid, bands[2][1], c)

\* ------------------------------- distributed master, transport errors
\* The master is blocked in _receive_grid_slice on a connection whose
\* worker has closed its end with nothing (or not a whole message) sent:
\* recv returns fewer than 4 prefix bytes or b'' inside the payload.
ShortRead ==
    /\ engine = "dist"
    /\ pc = "d_recv"
    /\ wstate[workers[idx]] = "closed"
    /\ to_master[workers[idx]] = << >>

MasterState == <<pc, idx, grid, new_grid, iteration, updates, ret>>

\* No step of the master: nothing new is put on a connection.
NothingSent == \A w \in WorkerIds : Len(to_worker'[w]) <= Len(to_worker[w])

\* C34: distributed master: if a read of the length prefix yields fewer
\* than 4 bytes, or the stream closes before `length` payload bytes have
\* arrived, the master treats it as a fatal transport error: simulate
\* raises, the round is not retried, no grid swap is performed for that
\* round and no iteration count is returned.
C34_ShortReadIsFatal ==
    /\ [][ShortRead =>
            \/ MasterState' = MasterState /\ NothingSent
            \/ /\ ret' = Raised
               /\ pc' = "done"
               /\ grid' = grid /\ new_grid' = new_grid
               /\ updates' = updates /\ iteration' = iteration
               /\ NothingSent]_vars
    /\ [][(engine = "dist" /\ ret = Raised) =>
            (MasterState' = MasterState /\ NothingSent)]_vars
    /\ []((engine = "dist" /\ ret = Raised) =>
            /\ pc = "done"
            /\ updates = iteration
            /\ grid = JacobiPow(InitialGrid(cfg), updates, cfg.width, cfg.height))

C34_Witness ==
    /\ engine = "dist"
    /\ ret = Raised
    /\ idx = 2
    /\ updates >= 1
    /\ wstate[workers[2]] = "closed"
    /\ to_master[workers[2]] = << >>
    /\ \E c \in InteriorCols(cfg.width) :
          new_grid[bands[1][1]][c] # grid[bands[1][1]][c]

\* -------------------- shared-segment engine, single-process fallback
\* num_processes is 1 or min(width, height) < min_size_for_parallel
FallbackInput ==
    /\ engine = "shm"
    /\ \/ cfg.num = 1
       \/ Min(cfg.width, cfg.height) < cfg.min_size_for_parallel

\* C35: shared-segment engine single-process fallback: when num_processes
\* is 1 or min(width, height) < min_size_for_parallel, the engine creates
\* no segments and no pool and behaves exactly like the sequential
\* engine: same iterationsRun and same final grid for every input.
C35_FallbackIsSequential ==
    FallbackInput =>
        /\ \A x \in Segments : seg_state[x] = "none"
        /\ shm_handles = {}
        /\ pool = "none"
        /\ jobs = << >>
        /\ grid = JacobiPow(InitialGrid(cfg), updates, cfg.width, cfg.height)
        /\ pc = "done" =>
              /\ ret = Returned(ConvergenceIteration(cfg))
              /\ updates = ConvergenceIteration(cfg)
              /\ grid = SequentialGrid(cfg)

C35_Witness ==
    /\ FallbackInput
    /\ pc = "done"
    /\ cfg.num >= 2
    /\ updates >= 2
    /\ ret = Returned(updates)
    /\ updates < cfg.iterations
    /\ grid # InitialGrid(cfg)

\* ------------------------------------- distributed engine, shutdown
AllWorkersClosed ==
    \A w \in WorkerIds : wstate[w] = "closed" /\ wret[w] = "returned"

MasterBlockedInSend ==
    /\ engine = "dist"
    /\ pc = "d_sendall"
    /\ Len(to_worker[workers[idx]]) >= cfg.buffer

WorkerBlockedInSend(w) ==
    /\ wstate[w] = "sending"
    /\ Len(to_master[w]) >= cfg.buffer

RoundInProgress == engine = "dist" /\ pc \in {"d_send", "d_sendall", "d_recv"}

\* C37: distributed engine deadlock freedom: with every worker alive and
\* connected and connection buffers of any bounded capacity, each round
\* eventually completes: the master is never blocked forever in a send
\* while a worker is blocked forever sending its result, and simulate
\* eventually returns.
C37_NoSendSendDeadlock ==
    /\ RoundInProgress ~> (pc = "d_swap")
    /\ []<>(~(MasterBlockedInSend /\ \E w \in WorkerIds : WorkerBlockedInSend(w)))
    /\ <>(pc = "done" /\ ret.kind = "returned")

C37_Witness ==
    /\ MasterBlockedInSend
    /\ \E w \in WorkerIds : WorkerBlockedInSend(w)
    /\ updates >= 1

\* ------------------------------------- threaded engine, uniform rounds
\* Worker t is at line 79: it has not passed barreira_inicio.
AtStartBarrier(t) == wpc[t] \in {"start", "in_inicio"}

\* Worker t took the compute branch of the round in progress.
InComputeBranch(t) == wpc[t] \in {"compute", "to_fim", "in_fim"}

\* C38: threaded engine: when only the coordinator raises the stop flag
\* (through the stop handshake), the flag changes only while every worker
\* is waiting at startBarrier, so in every round either all workers
\* compute their band or all workers skip and terminate; there is never a
\* round in which some workers computed and others terminated.
C38_UniformRounds ==
    /\ [][evento_parada' # evento_parada =>
            \A t \in Workers : AtStartBarrier(t)]_vars
    /\ [](engine = "thr" =>
            /\ \A t, u \in Workers : ~(InComputeBranch(t) /\ Stopping(u))
            /\ \A t, u \in Workers :
                  (AtStartBarrier(t) /\ AtStartBarrier(u)) => wround[t] = wround[u]
            /\ (\E t \in Workers : Stopping(t)) =>
                  \A u \in Workers : wround[u] = updates /\ ~InComputeBranch(u))

\* -------------------------------------- threaded engine, repeated calls
\* C39: threaded engine: simular terminates every time it is called on an
\* engine instance, including a second call made after a first simular has
\* returned (worker threads are spawned once at construction and stopped
\* at the end of the first call).
C39_EveryCallReturns ==
    (engine = "thr" /\ pc = "loop") ~> (pc = "done")

\* --------------------------- distributed master, a round that fails
\* The grid after k completed rounds from the constructor's grid.
GridAfterRounds(k) == JacobiPow(InitialGrid(cfg), k, cfg.width, cfg.height)

\* The master is in the receive loop of update and has stored the result
\* of at least one worker of the round in progress.
PartlyReceived == engine = "dist" /\ pc = "d_recv" /\ idx >= 2

\* C40: distributed master: when a round fails partway (some results
\* received, then a transport error), the master's current grid is left
\* exactly as it was at the end of the last completed round: partial
\* results are written only to the next buffer and the buffers are not
\* swapped.
C40_FailedRoundLeavesGrid ==
    /\ []((engine = "dist" /\ (PartlyReceived \/ ret = Raised)) =>
            grid = GridAfterRounds(updates))
    /\ [][(PartlyReceived /\ ret' = Raised) =>
            /\ grid' = grid
            /\ new_grid' = new_grid
            /\ updates' = updates
            /\ pc' = "done"]_vars
    /\ [][(engine = "dist" /\ ret = Raised) =>
            (grid' = grid /\ new_grid' = new_grid /\ updates' = updates)]_vars

C40_Witness ==
    /\ engine = "dist"
    /\ pc = "done"
    /\ ret = Raised
    /\ idx >= 2
    /\ Len(workers) >= 2
    /\ updates >= 1
    /\ grid = GridAfterRounds(updates)
    /\ new_grid[bands[1][1]] = GridAfterRounds(updates + 1)[bands[1][1]]
    /\ new_grid[bands[1][1]] # grid[bands[1][1]]
    /\ new_grid[bands[idx][1]] = GridAfterRounds(updates - 1)[bands[idx][1]]

=============================================================================
